---- MODULE Spec2Model ----
(***************************************************************************)
(* dirtidy: the organize / dry-run / undo engine over one base directory.  *)
(*                                                                         *)
(* The directory tree under base_path is the function fs from the paths    *)
(* that exist (sequences of file names, <<>> being base_path itself) to    *)
(* their entries.  Every std::fs call the program makes is an operator on  *)
(* fs that returns the outcome and the tree afterwards, with the POSIX     *)
(* failure cases (missing source, destination of the wrong kind, parent    *)
(* directory not writable).  A command of the program runs as a chain of   *)
(* steps (pc) that nothing else interleaves: the program is                *)
(* single-threaded.  The user acts between commands only.                  *)
(*                                                                         *)
(* Spec is the program run command after command on one directory.         *)
(* ApiSpec is the library called one function at a time on a directory or  *)
(* on filter rules in any of a range of states.                            *)
(***************************************************************************)
EXTENDS Integers, Sequences, FiniteSets, TLC

\* ------------------------------------------------------------------ bounds
\* The clock takes the values 0..MaxClock (seconds).
MaxClock == 1
\* The user changes the directory at most MaxEdits times in one behaviour.
MaxEdits == 2
\* At most MaxRuns commands (organize, dry-run, undo) in one behaviour.
MaxRuns == 3
\* At most MaxCalls calls of the functions of OperationLog in a row.
MaxCalls == 3
\* At most MaxPatterns exclude globs and MaxPatterns exclude regexes in the
\* filter rules that compile is called with.
MaxPatterns == 2

\* ------------------------------------------------------------------- names
\* A file name: a base spelling followed by the ".bak.<timestamp>" suffixes
\* that generate_backup_path has appended to it, oldest first.
N(s) == [base |-> s, bak |-> <<>>]

HISTORY_FILE == N(".dirtidy_history.json")

\* str::starts_with('.') on a file name.
starts_with_dot(n) == n.base \in {".dirtidy_history.json", ".hid"}

\* Path::join, Path::parent, Path::file_name on paths relative to base_path.
join(p, n) == Append(p, n)
parent(p) == SubSeq(p, 1, Len(p) - 1)
file_name(p) == p[Len(p)]

base_path == <<>>

\* ------------------------------------------------------------ file system
NoDoc == [json |-> FALSE, present |-> {}, timestamp |-> 0, operations |-> <<>>]

\* The bytes of a file: sig is what content sniffing sees in them, id tells
\* two byte strings of the same kind apart, doc is their reading as JSON.
Bytes(sig, id) == [sig |-> sig, id |-> id, doc |-> NoDoc]
JsonBytes(doc) == [sig |-> "none", id |-> 0, doc |-> doc]

DirEntry(ro) == [kind |-> "dir", ro |-> ro, content |-> Bytes("none", 0)]
FileEntry(c) == [kind |-> "file", ro |-> FALSE, content |-> c]

\* Path::exists, Path::is_dir, Path::is_file
exists(f, p) == p \in DOMAIN f
is_dir(f, p) == exists(f, p) /\ f[p].kind = "dir"
is_file(f, p) == exists(f, p) /\ f[p].kind = "file"

\* A directory in which entries can be created, removed and renamed.
writable_dir(f, d) == is_dir(f, d) /\ ~f[d].ro

IsPrefix(a, q) == Len(a) <= Len(q) /\ SubSeq(q, 1, Len(a)) = a
Children(f, d) == {q \in DOMAIN f : Len(q) = Len(d) + 1 /\ parent(q) = d}

\* rename(2): whether std::fs::rename(src, dst) succeeds on f.
rename_ok(f, src, dst) ==
    /\ Len(src) > 0 /\ Len(dst) > 0
    /\ exists(f, src)
    /\ writable_dir(f, parent(src))
    /\ writable_dir(f, parent(dst))
    /\ IF f[src].kind = "file"
       THEN ~is_dir(f, dst)
       ELSE /\ ~is_file(f, dst)
            /\ (src = dst \/ ~IsPrefix(src, dst))
            /\ (exists(f, dst) => Children(f, dst) = {})

\* The tree after a successful rename: src (with all below it) is at dst,
\* whatever was at dst is replaced.
rename_fs(f, src, dst) ==
    IF src = dst THEN f
    ELSE LET moved == {q \in DOMAIN f : IsPrefix(src, q)}
             kept == (DOMAIN f) \ (moved \cup {dst})
             at(q) == dst \o SubSeq(q, Len(src) + 1, Len(q))
             from(q) == src \o SubSeq(q, Len(dst) + 1, Len(q))
         IN [q \in kept \cup {at(m) : m \in moved} |->
                IF IsPrefix(dst, q) THEN f[from(q)] ELSE f[q]]

\* std::fs::rename: [ok, fs]
fs_rename(f, src, dst) ==
    IF rename_ok(f, src, dst)
    THEN [ok |-> TRUE, fs |-> rename_fs(f, src, dst)]
    ELSE [ok |-> FALSE, fs |-> f]

\* std::fs::create_dir (mkdir(2))
fs_create_dir(f, p) ==
    IF ~exists(f, p) /\ writable_dir(f, parent(p))
    THEN [ok |-> TRUE, fs |-> (p :> DirEntry(FALSE)) @@ f]
    ELSE [ok |-> FALSE, fs |-> f]

\* std::fs::write: creates the file or replaces its bytes; a file that
\* exists must be writable, one that does not needs a writable directory.
fs_write(f, p, c) ==
    IF (is_file(f, p) /\ ~f[p].ro) \/ (~exists(f, p) /\ writable_dir(f, parent(p)))
    THEN [ok |-> TRUE, fs |-> (p :> FileEntry(c)) @@ f]
    ELSE [ok |-> FALSE, fs |-> f]

\* std::fs::remove_file (unlink(2))
fs_remove_file(f, p) ==
    IF is_file(f, p) /\ writable_dir(f, parent(p))
    THEN [ok |-> TRUE, fs |-> [q \in (DOMAIN f) \ {p} |-> f[q]]]
    ELSE [ok |-> FALSE, fs |-> f]

\* -------------------------------------------------------- category mapper
NONE == "<none>"

\* str::to_lowercase on the MIME strings and extensions of the model.
to_lowercase(s) ==
    CASE s = "IMAGE/PNG" -> "image/png"
      [] s = "PNG" -> "png"
      [] s = "TXT" -> "txt"
      [] s = "BAK" -> "bak"
      [] OTHER -> s

\* The entries of FileMapper::populate_standard_mappings that the model's
\* MIME strings and extensions can hit.
mime_map ==
    [m \in {"image/png", "application/pdf", "text/plain"} |->
        CASE m = "image/png" -> "Image"
          [] m = "application/pdf" -> "Document"
          [] m = "text/plain" -> "Document"]

extension_map ==
    [e \in {"png", "pdf", "txt", "py"} |->
        CASE e = "png" -> "Image"
          [] e = "pdf" -> "Document"
          [] e = "txt" -> "Document"
          [] e = "py" -> "Code"]

mime_to_category(mime_type) ==
    IF to_lowercase(mime_type) \in DOMAIN mime_map
    THEN mime_map[to_lowercase(mime_type)] ELSE NONE

extension_to_category(ext) ==
    IF to_lowercase(ext) \in DOMAIN extension_map
    THEN extension_map[to_lowercase(ext)] ELSE NONE

\* A lookup that asks the extension table before the MIME table.
categorize_extension_first(mime_type, ext) ==
    IF ext # NONE /\ extension_to_category(ext) # NONE
    THEN extension_to_category(ext)
    ELSE IF mime_type # NONE /\ mime_to_category(mime_type) # NONE
         THEN mime_to_category(mime_type)
         ELSE "Other"

\* FileMapper::categorize(mime_type: Option, ext: Option); NONE is None.
categorize(mime_type, ext) ==
    IF mime_type # NONE /\ mime_to_category(mime_type) # NONE
    THEN mime_to_category(mime_type)
    ELSE IF ext # NONE /\ extension_to_category(ext) # NONE
         THEN extension_to_category(ext)
         ELSE "Other"

\* Category::dir_name
dir_name(category) ==
    CASE category = "Image" -> "images"
      [] category = "Document" -> "documents"
      [] category = "Code" -> "code"
      [] category = "Other" -> "other"

\* infer::get on the bytes of a file: the (extension, MIME type) of a known
\* signature, or None for bytes it does not recognise.
infer_get(content) ==
    CASE content.sig = "png" -> [extension |-> "png", mime_type |-> "image/png"]
      [] content.sig = "pdf" -> [extension |-> "pdf", mime_type |-> "application/pdf"]
      [] OTHER -> [extension |-> NONE, mime_type |-> NONE]

\* detect_file_type of the directory entry at path (a regular file).
detect_file_type(f, path) ==
    LET kind == infer_get(f[path].content)
    IN [name |-> file_name(path),
        path |-> path,
        file_type |-> kind.extension,
        mime_type |-> kind.mime_type,
        category |-> categorize(kind.mime_type, kind.extension)]

\* ----------------------------------------------------------- filter engine
\* The spelling of a file name and of a path (absolute: base_path is "/d").
base_chars(b) ==
    CASE b = "a" -> <<"a">>
      [] b = "b" -> <<"b">>
      [] b = "images" -> <<"i", "m", "g">>
      [] b = "other" -> <<"o", "t", "h">>
      [] b = ".dirtidy_history.json" -> <<".", "h", ".", "j">>
      [] b = ".hid" -> <<".", "h", "i", "d">>
      [] b = "f.txt" -> <<"f", ".", "t", "x", "t">>
      [] b = "f.TXT" -> <<"f", ".", "T", "X", "T">>
      [] b = "logs" -> <<"l", "o", "g", "s">>
      [] b = "my_logs" -> <<"m", "y", "_", "l", "o", "g", "s">>
      [] b = "app" -> <<"a", "p", "p">>
      [] OTHER -> <<"x">>

RECURSIVE bak_chars(_)
bak_chars(ts) ==
    IF ts = <<>> THEN <<>>
    ELSE <<".", "k", ".", ToString(Head(ts))>> \o bak_chars(Tail(ts))

name_chars(n) == base_chars(n.base) \o bak_chars(n.bak)

\* A path that starts with CWD is spelled relative to the current directory
\* ("logs/f.txt"), any other path from base_path on ("/d/logs/f.txt").
CWD == N("")

RECURSIVE path_chars(_)
path_chars(p) ==
    IF p = <<>> THEN <<"/", "d">>
    ELSE IF p = <<CWD>> THEN <<>>
    ELSE IF parent(p) = <<CWD>> THEN name_chars(file_name(p))
    ELSE path_chars(parent(p)) \o <<"/">> \o name_chars(file_name(p))

\* Path::extension of a file name: what follows its last '.', None when
\* there is no '.' after the first character.
extension(n) ==
    IF n.bak # <<>> THEN ToString(n.bak[Len(n.bak)])
    ELSE CASE n.base = ".dirtidy_history.json" -> "json"
           [] n.base = "f.txt" -> "txt"
           [] n.base = "f.TXT" -> "TXT"
           [] OTHER -> NONE

\* glob::Pattern::new on a pattern given as its characters: the tokens, or
\* an error.  "**" is a token of its own (written "**") only as a whole path
\* component, and swallows the separator after it; three stars are an error.
RECURSIVE glob_tokens(_, _)
glob_tokens(chars, i) ==
    IF i > Len(chars) THEN [ok |-> TRUE, tokens |-> <<>>]
    ELSE IF chars[i] = "*"
    THEN LET stars == CHOOSE k \in 1..(Len(chars) - i + 1) :
                          /\ \A j \in i..(i + k - 1) : chars[j] = "*"
                          /\ (i + k > Len(chars) \/ chars[i + k] # "*")
             next == i + stars
         IN IF stars > 2 THEN [ok |-> FALSE, tokens |-> <<>>]
            ELSE IF stars = 2
            THEN IF /\ (i = 1 \/ chars[i - 1] = "/")
                    /\ (next > Len(chars) \/ chars[next] = "/")
                 THEN LET rest == glob_tokens(chars, IF next > Len(chars) THEN next ELSE next + 1)
                      IN [ok |-> rest.ok, tokens |-> <<"**">> \o rest.tokens]
                 ELSE [ok |-> FALSE, tokens |-> <<>>]
            ELSE LET rest == glob_tokens(chars, next)
                 IN [ok |-> rest.ok, tokens |-> <<"*">> \o rest.tokens]
    ELSE IF chars[i] = "["
    THEN [ok |-> FALSE, tokens |-> <<>>]
    ELSE LET rest == glob_tokens(chars, i + 1)
         IN [ok |-> rest.ok, tokens |-> <<chars[i]>> \o rest.tokens]

Pattern_new(chars) == glob_tokens(chars, 1)

\* A "**" that ends after a separator only, and so never takes the last
\* segment of a path.
RECURSIVE matches_from_strict(_, _)
matches_from_strict(file, tokens) ==
    IF tokens = <<>> THEN file = <<>>
    ELSE LET t == Head(tokens)
             rest == Tail(tokens)
         IN IF t \in {"*", "**"}
            THEN \/ matches_from_strict(file, rest)
                 \/ \E k \in 1..Len(file) :
                      /\ (t = "**" => file[k] = "/")
                      /\ matches_from_strict(SubSeq(file, k + 1, Len(file)), rest)
            ELSE /\ file # <<>>
                 /\ (t = "?" \/ t = Head(file))
                 /\ matches_from_strict(Tail(file), rest)

\* glob::Pattern::matches_from under MatchOptions::new(): a wildcard is
\* tried against every prefix of what is left of the file; "*" and "?" also
\* match a separator, "**" ends after a separator or, when it has run
\* through the whole file, at its end.
RECURSIVE matches_from(_, _)
matches_from(file, tokens) ==
    IF tokens = <<>> THEN file = <<>>
    ELSE LET t == Head(tokens)
             rest == Tail(tokens)
         IN IF t \in {"*", "**"}
            THEN \/ matches_from(file, rest)
                 \/ \E k \in 1..Len(file) :
                      /\ (t = "**" => (file[k] = "/" \/ k = Len(file)))
                      /\ matches_from(SubSeq(file, k + 1, Len(file)), rest)
            ELSE /\ file # <<>>
                 /\ (t = "?" \/ t = Head(file))
                 /\ matches_from(Tail(file), rest)

\* Pattern::matches_path
matches_path(tokens, path) == matches_from(path_chars(path), tokens)

\* Regex::new and Regex::is_match for the regular expressions of the model:
\* a literal, searched anywhere in the text or (anchored: "^literal") at
\* its start; a literal holding "(" does not compile, and the error gives
\* the reason.
Regex_new(re) ==
    IF \A i \in 1..Len(re.lit) : re.lit[i] # "("
    THEN [ok |-> TRUE, reason |-> ""]
    ELSE [ok |-> FALSE, reason |-> "regex parse error: unclosed group"]

is_match(re, text) ==
    \E i \in 1..(Len(text) - Len(re.lit) + 1) :
        /\ (re.anchored => i = 1)
        /\ SubSeq(text, i, i + Len(re.lit) - 1) = re.lit

\* FilterConfig::default().filters
default_rules ==
    [enable_hidden_files |-> FALSE,
     exclude |-> [filenames |-> {}, patterns |-> <<>>, extensions |-> {}, regex |-> <<>>],
     include |-> [patterns |-> <<>>]]

SeqRange(s) == {s[i] : i \in DOMAIN s}

\* A compilation that leaves out the patterns that do not compile and
\* returns filters made of the others.
new_skipping(rules) ==
    [ok |-> TRUE,
     enable_hidden_files |-> rules.enable_hidden_files,
     exclude_filenames |-> rules.exclude.filenames,
     exclude_extensions |-> {to_lowercase(e) : e \in rules.exclude.extensions},
     exclude_patterns |-> {Pattern_new(g).tokens :
                            g \in {x \in SeqRange(rules.exclude.patterns) : Pattern_new(x).ok}},
     exclude_regexes |-> {r \in SeqRange(rules.exclude.regex) : Regex_new(r).ok},
     include_patterns |-> {Pattern_new(g).tokens :
                            g \in {x \in SeqRange(rules.include.patterns) : Pattern_new(x).ok}}]

\* CompiledFilters::new: the exclude globs, the include globs and the exclude
\* regexes are compiled in this order; the first that does not compile is
\* the error (InvalidGlobPattern(pattern), InvalidRegexPattern {pattern,
\* reason}) and no filters are returned.
new(rules) ==
    LET bad_exclude == {i \in DOMAIN rules.exclude.patterns :
                            ~Pattern_new(rules.exclude.patterns[i]).ok}
        bad_include == {i \in DOMAIN rules.include.patterns :
                            ~Pattern_new(rules.include.patterns[i]).ok}
        bad_regex == {i \in DOMAIN rules.exclude.regex :
                            ~Regex_new(rules.exclude.regex[i]).ok}
        first(S) == CHOOSE i \in S : \A j \in S : i <= j
        err(kind, pattern, reason) ==
            [ok |-> FALSE, error |-> kind, pattern |-> pattern, reason |-> reason]
    IN IF bad_exclude # {}
       THEN err("InvalidGlobPattern", rules.exclude.patterns[first(bad_exclude)], "")
       ELSE IF bad_include # {}
       THEN err("InvalidGlobPattern", rules.include.patterns[first(bad_include)], "")
       ELSE IF bad_regex # {}
       THEN err("InvalidRegexPattern", rules.exclude.regex[first(bad_regex)].lit,
                Regex_new(rules.exclude.regex[first(bad_regex)]).reason)
       ELSE [ok |-> TRUE,
             enable_hidden_files |-> rules.enable_hidden_files,
             exclude_filenames |-> rules.exclude.filenames,
             exclude_extensions |-> {to_lowercase(e) : e \in rules.exclude.extensions},
             exclude_patterns |-> {Pattern_new(g).tokens : g \in SeqRange(rules.exclude.patterns)},
             exclude_regexes |-> SeqRange(rules.exclude.regex),
             include_patterns |-> {Pattern_new(g).tokens : g \in SeqRange(rules.include.patterns)}]

\* FilterConfig::load on the configuration as the program finds it: no
\* configuration file anywhere ("none": the defaults), a file that parses
\* ("ok"), a path given that does not exist ("missing"), a file that cannot
\* be read ("unreadable"), a file that is no valid TOML ("invalid").
FilterConfig_load(config) ==
    CASE config.file = "none" -> [ok |-> TRUE, error |-> "", filters |-> default_rules]
      [] config.file = "ok" -> [ok |-> TRUE, error |-> "", filters |-> config.filters]
      [] config.file = "missing" -> [ok |-> FALSE, error |-> "ConfigNotFound", filters |-> default_rules]
      [] config.file = "unreadable" -> [ok |-> FALSE, error |-> "IoError", filters |-> default_rules]
      [] config.file = "invalid" -> [ok |-> FALSE, error |-> "ConfigInvalid", filters |-> default_rules]

\* A compilation that falls back to the default filters when the
\* configuration cannot be loaded or compiled.
compile_lenient(config) ==
    LET loaded == FilterConfig_load(config)
    IN IF loaded.ok /\ new(loaded.filters).ok THEN new(loaded.filters)
       ELSE new(default_rules)

\* FilterConfig::load(config_path) followed by FilterConfig::compile, as the
\* orchestrators chain them: the compiled filters, or the error of the first
\* of the two that fails.
compile(config) ==
    LET loaded == FilterConfig_load(config)
    IN IF ~loaded.ok
       THEN [ok |-> FALSE, error |-> loaded.error, pattern |-> <<>>, reason |-> ""]
       ELSE new(loaded.filters)

\* The message of the orchestrator for a configuration that gave no filters.
config_error(filters) ==
    IF filters.error \in {"InvalidGlobPattern", "InvalidRegexPattern"}
    THEN "Err: compiling filters" ELSE "Err: loading configuration"

matches_include_patterns(filters, file_path) ==
    \E pattern \in filters.include_patterns : matches_path(pattern, file_path)

matches_exclude_patterns(filters, file_path) ==
    \E pattern \in filters.exclude_patterns : matches_path(pattern, file_path)

matches_exclude_regex(filters, name) ==
    \E regex \in filters.exclude_regexes : is_match(regex, name_chars(name))

\* A decision that looks at the hidden-file policy before the include
\* patterns.
should_include_hidden_first(filters, file_path) ==
    LET name == file_name(file_path)
    IN IF ~filters.enable_hidden_files /\ starts_with_dot(name) THEN FALSE
       ELSE IF matches_include_patterns(filters, file_path) THEN TRUE
       ELSE IF name \in filters.exclude_filenames THEN FALSE
       ELSE IF /\ extension(name) # NONE
               /\ to_lowercase(extension(name)) \in filters.exclude_extensions THEN FALSE
       ELSE IF matches_exclude_patterns(filters, file_path) THEN FALSE
       ELSE IF matches_exclude_regex(filters, name) THEN FALSE
       ELSE TRUE

\* A decision that compares the extension of the file as it is written.
should_include_same_case(filters, file_path) ==
    LET name == file_name(file_path)
    IN IF matches_include_patterns(filters, file_path) THEN TRUE
       ELSE IF ~filters.enable_hidden_files /\ starts_with_dot(name) THEN FALSE
       ELSE IF name \in filters.exclude_filenames THEN FALSE
       ELSE IF /\ extension(name) # NONE
               /\ extension(name) \in filters.exclude_extensions THEN FALSE
       ELSE IF matches_exclude_patterns(filters, file_path) THEN FALSE
       ELSE IF matches_exclude_regex(filters, name) THEN FALSE
       ELSE TRUE

\* CompiledFilters::should_include
should_include(filters, file_path) ==
    LET name == file_name(file_path)
    IN IF matches_include_patterns(filters, file_path) THEN TRUE
       ELSE IF ~filters.enable_hidden_files /\ starts_with_dot(name) THEN FALSE
       ELSE IF name \in filters.exclude_filenames THEN FALSE
       ELSE IF /\ extension(name) # NONE
               /\ to_lowercase(extension(name)) \in filters.exclude_extensions THEN FALSE
       ELSE IF matches_exclude_patterns(filters, file_path) THEN FALSE
       ELSE IF matches_exclude_regex(filters, name) THEN FALSE
       ELSE TRUE

\* ----------------------------------------------------------- operation log
\* OperationLog::new: the timestamp is the time of creation.
OperationLog_new(base, time) ==
    [timestamp |-> time, base_path |-> base, operations |-> <<>>]

\* A log that puts the newest operation first.
add_operation_first(log, operation) ==
    [log EXCEPT !.operations = <<operation>> \o @]

\* OperationLog::add_operation
add_operation(log, operation) ==
    [log EXCEPT !.operations = Append(@, operation)]

\* OperationLog::history_file_path
history_file_path(base) == join(base, HISTORY_FILE)

\* Path::to_string_lossy then PathBuf::from: a name that is not UTF-8 comes
\* back with U+FFFD in place of the offending bytes.
lossy_name(n) ==
    IF n.base = "x\\xFF" THEN [n EXCEPT !.base = "x\\uFFFD"] ELSE n

to_string_lossy(p) == [i \in DOMAIN p |-> lossy_name(p[i])]

AllFields == {"timestamp", "base_path", "operations"}
OpFields == {"original_path", "new_path", "category"}

\* The JSON document that OperationLog::save serialises.
log_json(log) ==
    [json |-> TRUE,
     present |-> AllFields,
     timestamp |-> log.timestamp,
     operations |->
        [i \in DOMAIN log.operations |->
            [original_path |-> to_string_lossy(log.operations[i].original_path),
             new_path |-> to_string_lossy(log.operations[i].new_path),
             category |-> log.operations[i].category,
             present |-> OpFields]]]

\* A save that keeps the operations of the log already stored and adds the
\* new ones after them.
save_merging(log, f) ==
    LET history_path == history_file_path(base_path)
        old == IF is_file(f, history_path) /\ f[history_path].content.doc.json
               THEN f[history_path].content.doc.operations ELSE <<>>
        doc == log_json(log)
    IN fs_write(f, history_path, JsonBytes([doc EXCEPT !.operations = old \o @]))

\* OperationLog::save: [ok, fs]
save(log, f) == fs_write(f, history_file_path(base_path), JsonBytes(log_json(log)))

\* Whether fs::read_to_string accepts the bytes: a PNG starts with the byte
\* 0x89, which no UTF-8 text holds.
is_utf8(content) == content.sig # "png"

\* A load that reads the file as text whatever its bytes are.
load_any_bytes(f) ==
    LET history_path == history_file_path(base_path)
        doc == f[history_path].content.doc
        none == OperationLog_new(base_path, 0)
        complete == /\ doc.json /\ AllFields \subseteq doc.present
                    /\ \A i \in DOMAIN doc.operations : OpFields \subseteq doc.operations[i].present
    IN IF ~exists(f, history_path) THEN [tag |-> "None", log |-> none]
       ELSE IF ~is_file(f, history_path) THEN [tag |-> "HistoryReadFailed", log |-> none]
       ELSE IF ~complete THEN [tag |-> "InvalidHistoryFormat", log |-> none]
       ELSE [tag |-> "Some",
             log |-> [timestamp |-> doc.timestamp,
                      base_path |-> base_path,
                      operations |->
                         [i \in DOMAIN doc.operations |->
                            [original_path |-> doc.operations[i].original_path,
                             new_path |-> doc.operations[i].new_path,
                             category |-> doc.operations[i].category]]]]

\* OperationLog::load: Ok(None), Ok(Some(log)) or the error.
load(f) ==
    LET history_path == history_file_path(base_path)
        doc == f[history_path].content.doc
        none == OperationLog_new(base_path, 0)
    IN IF ~exists(f, history_path) THEN [tag |-> "None", log |-> none]
       ELSE IF ~is_file(f, history_path) \/ ~is_utf8(f[history_path].content)
       THEN [tag |-> "HistoryReadFailed", log |-> none]
       ELSE IF ~doc.json THEN [tag |-> "InvalidHistoryFormat", log |-> none]
       ELSE IF ~(AllFields \subseteq doc.present) THEN [tag |-> "InvalidHistoryFormat", log |-> none]
       ELSE IF \E i \in DOMAIN doc.operations : ~(OpFields \subseteq doc.operations[i].present)
       THEN [tag |-> "InvalidHistoryFormat", log |-> none]
       ELSE [tag |-> "Some",
             log |-> [timestamp |-> doc.timestamp,
                      base_path |-> base_path,
                      operations |->
                         [i \in DOMAIN doc.operations |->
                            [original_path |-> doc.operations[i].original_path,
                             new_path |-> doc.operations[i].new_path,
                             category |-> doc.operations[i].category]]]]

\* A delete that removes the history file without looking whether it is
\* there, and fails when it is not.
delete_strict(f) == fs_remove_file(f, history_file_path(base_path))

\* OperationLog::delete: [ok, fs]
delete(f) ==
    LET history_path == history_file_path(base_path)
    IN IF exists(f, history_path) THEN fs_remove_file(f, history_path)
       ELSE [ok |-> TRUE, fs |-> f]

\* --------------------------------------------------------------- organizer
NoOperation == [original_path |-> <<>>, new_path |-> <<>>, category |-> ""]

\* A move that records the two paths of the Operation the wrong way round.
move_to_category_with_record_swapped(f, file_path, category_dir_name) ==
    LET category_path == join(base_path, N(category_dir_name))
        made == IF exists(f, category_path) THEN [ok |-> TRUE, fs |-> f]
                ELSE fs_create_dir(f, category_path)
        destination_path == join(category_path, file_name(file_path))
        moved == fs_rename(made.fs, file_path, destination_path)
    IN IF ~exists(f, base_path)
       THEN [result |-> "InvalidBasePath", fs |-> f, operation |-> NoOperation]
       ELSE IF ~made.ok
       THEN [result |-> "DirectoryCreationFailed", fs |-> f, operation |-> NoOperation]
       ELSE IF Len(file_path) = 0 \/ ~moved.ok
       THEN [result |-> "FileMoveFailure", fs |-> made.fs, operation |-> NoOperation]
       ELSE [result |-> "Ok", fs |-> moved.fs,
             operation |-> [original_path |-> destination_path,
                            new_path |-> file_path,
                            category |-> category_dir_name]]

\* FileOrganizer::move_to_category_with_record: [result, fs, operation]
move_to_category_with_record(f, file_path, category_dir_name) ==
    LET category_path == join(base_path, N(category_dir_name))
        made == IF exists(f, category_path) THEN [ok |-> TRUE, fs |-> f]
                ELSE fs_create_dir(f, category_path)
        destination_path == join(category_path, file_name(file_path))
        moved == fs_rename(made.fs, file_path, destination_path)
    IN IF ~exists(f, base_path)
       THEN [result |-> "InvalidBasePath", fs |-> f, operation |-> NoOperation]
       ELSE IF ~made.ok
       THEN [result |-> "DirectoryCreationFailed", fs |-> f, operation |-> NoOperation]
       ELSE IF Len(file_path) = 0
       THEN [result |-> "FileMoveFailure", fs |-> made.fs, operation |-> NoOperation]
       ELSE IF ~moved.ok
       THEN [result |-> "FileMoveFailure", fs |-> made.fs, operation |-> NoOperation]
       ELSE [result |-> "Ok", fs |-> moved.fs,
             operation |-> [original_path |-> file_path,
                            new_path |-> destination_path,
                            category |-> category_dir_name]]

\* ------------------------------------------------------------- undo engine
\* UndoReport::new
UndoReport_new == [restored_files |-> 0, failed_restores |-> <<>>, skipped_files |-> <<>>]

\* UndoReport::total_processed
total_processed(report) ==
    report.restored_files + Len(report.failed_restores) + Len(report.skipped_files)

\* UndoReport::is_complete_success
is_complete_success(report) ==
    report.failed_restores = <<>> /\ report.skipped_files = <<>>

\* A backup path without the timestamp: <parent>/<file name>.bak
generate_backup_path_plain(original_path, time) ==
    join(parent(original_path), [base |-> "bak", bak |-> <<>>])

\* UndoManager::generate_backup_path at local time `time`:
\* <parent>/<file name>.bak.<time>
generate_backup_path(original_path, time) ==
    IF Len(original_path) = 0 THEN <<[base |-> "file", bak |-> <<time>>]>>
    ELSE join(parent(original_path),
              [file_name(original_path) EXCEPT !.bak = Append(@, time)])

\* A restore that moves the occupant of original_path aside before it looks
\* for the file at new_path.
restore_file_backup_first(f, operation, time) ==
    LET backup_path == generate_backup_path(operation.original_path, time)
        backed == IF exists(f, operation.original_path)
                  THEN fs_rename(f, operation.original_path, backup_path)
                  ELSE [ok |-> TRUE, fs |-> f]
        restored == fs_rename(backed.fs, operation.new_path, operation.original_path)
    IN IF ~backed.ok
       THEN [result |-> "Err", path |-> operation.original_path,
             reason |-> "Could not backup conflicting file", fs |-> f]
       ELSE IF ~exists(f, operation.new_path)
       THEN [result |-> "Err", path |-> operation.new_path,
             reason |-> "File not found at expected location", fs |-> backed.fs]
       ELSE IF ~restored.ok
       THEN [result |-> "Err", path |-> operation.new_path,
             reason |-> "Failed to restore file", fs |-> backed.fs]
       ELSE [result |-> "Ok", path |-> operation.new_path, reason |-> "", fs |-> restored.fs]

\* UndoManager::restore_file at local time `time`: [result, path, reason, fs]
restore_file(f, operation, time) ==
    LET backup_path == generate_backup_path(operation.original_path, time)
        backed == IF exists(f, operation.original_path)
                  THEN fs_rename(f, operation.original_path, backup_path)
                  ELSE [ok |-> TRUE, fs |-> f]
        restored == fs_rename(backed.fs, operation.new_path, operation.original_path)
    IN IF ~exists(f, operation.new_path)
       THEN [result |-> "Err", path |-> operation.new_path,
             reason |-> "File not found at expected location", fs |-> f]
       ELSE IF ~backed.ok
       THEN [result |-> "Err", path |-> operation.original_path,
             reason |-> "Could not backup conflicting file", fs |-> f]
       ELSE IF ~restored.ok
       THEN [result |-> "Err", path |-> operation.new_path,
             reason |-> "Failed to restore file", fs |-> backed.fs]
       ELSE [result |-> "Ok", path |-> operation.new_path, reason |-> "", fs |-> restored.fs]

\* str::contains("not found") on the reasons restore_file gives.  The two
\* rename reasons end with the text of the io::Error, "No such file or
\* directory" or "Permission denied" and the like, none of which holds
\* "not found".
contains_not_found(reason) == reason = "File not found at expected location"

\* ------------------------------------------------------------------- state
VARIABLES
    fs,             \* the directory tree: existing path -> entry
    now,            \* the clock, in seconds
    rules,          \* the configuration: the state of the configuration file
                    \* and the FilterRules it holds
    edits,          \* changes the user has made so far
    runs,           \* commands started so far
    pc,             \* "idle", or the command in progress: "organize", "undo"
    file_infos,     \* organize: the FileInfo still to be moved, in order
    operation_log,  \* organize: the log being built; undo: the log loaded
    organize_failed,\* organize: the aggregate failure flag
    todo,           \* undo: the operations still to be replayed, in order
    report,         \* undo: the UndoReport
    result,         \* what the current or last command returned: [cmd, status, saved]
    summary,        \* dry-run: category directory -> number of files
    start_fs,       \* the tree when the current or last command started
    performed,      \* the renames of files seen in the tree during the current
                    \* or last command, in order: <<from, to>>
    touched,        \* the user changed the tree since the last command started
    previous,       \* the command before the current or last one
    attempts        \* organize: who ran the batch and the calls of
                    \* move_to_category_with_record so far:
                    \* <<path, result, category directory>>

vars == <<fs, now, rules, edits, runs, pc, file_infos, operation_log,
          organize_failed, todo, report, result, summary, start_fs,
          performed, touched, previous, attempts>>

\* ------------------------------------------------------------ initial trees
Names == {N("a"), N("b")}

EmptyTree == <<>> :> DirEntry(FALSE)
NoTree == [q \in {} |-> DirEntry(FALSE)]

Tree(files) == [q \in DOMAIN files |-> files[q]] @@ EmptyTree

ImagesDir == <<N("images")>> :> DirEntry(FALSE)

NoConfig == [file |-> "none", filters |-> default_rules]
Config(filters) == [file |-> "ok", filters |-> filters]

\* The directory before the first command, with the configuration in force:
\* no directory at all, an empty one, or one that holds the files a and b,
\* possibly beside an images/ directory that already holds a file a, or one
\* that holds the text file f.txt.  The configuration is absent, valid, or
\* one that cannot be loaded or compiled.
InitialStates ==
    { [tree |-> NoTree, rules |-> NoConfig],
      [tree |-> EmptyTree, rules |-> NoConfig],
      [tree |-> Tree((<<N("a")>> :> FileEntry(Bytes("png", 1)))
                        @@ (<<N("b")>> :> FileEntry(Bytes("png", 2)))),
       rules |-> NoConfig],
      [tree |-> Tree((<<N("a")>> :> FileEntry(Bytes("none", 1)))
                        @@ (<<N("b")>> :> FileEntry(Bytes("png", 2)))),
       rules |-> Config([default_rules EXCEPT !.exclude.filenames = {N("b")},
                                              !.enable_hidden_files = TRUE])],
      [tree |-> Tree((<<N("a")>> :> FileEntry(Bytes("png", 1)))
                        @@ ImagesDir
                        @@ (<<N("images"), N("a")>> :> FileEntry(Bytes("png", 4)))),
       rules |-> NoConfig],
      [tree |-> Tree(<<N("a")>> :> FileEntry(Bytes("png", 1))),
       rules |-> Config([default_rules EXCEPT !.exclude.patterns = <<<<"[">>>>])],
      [tree |-> EmptyTree,
       rules |-> Config([default_rules EXCEPT
                            !.exclude.regex = <<[lit |-> <<"(">>, anchored |-> FALSE]>>])],
      [tree |-> Tree(<<N("f.txt")>> :> FileEntry(Bytes("none", 3))),
       rules |-> NoConfig],
      [tree |-> EmptyTree, rules |-> [file |-> "invalid", filters |-> default_rules]],
      [tree |-> EmptyTree, rules |-> [file |-> "unreadable", filters |-> default_rules]],
      [tree |-> NoTree, rules |-> [file |-> "missing", filters |-> default_rules]] }

NoResult == [cmd |-> "none", status |-> "", saved |-> FALSE]

NoPrevious ==
    [result |-> NoResult, start_fs |-> NoTree, log |-> OperationLog_new(base_path, 0),
     report |-> UndoReport_new, performed |-> <<>>, clean |-> FALSE]

NoAttempts == [by |-> "none", calls |-> <<>>]

Init ==
    /\ \E i \in InitialStates : fs = i.tree /\ rules = i.rules
    /\ now = 0
    /\ edits = 0
    /\ runs = 0
    /\ pc = "idle"
    /\ file_infos = <<>>
    /\ operation_log = OperationLog_new(base_path, 0)
    /\ organize_failed = FALSE
    /\ todo = <<>>
    /\ report = UndoReport_new
    /\ result = NoResult
    /\ summary = <<>>
    /\ start_fs = fs
    /\ performed = <<>>
    /\ touched = FALSE
    /\ previous = NoPrevious
    /\ attempts = NoAttempts

locals == <<file_infos, operation_log, organize_failed, todo, report, attempts>>

\* ------------------------------------------------------------- orchestrator
\* The sequences that list the elements of S once each: the orders in which
\* read_dir may yield them.
Orders(S) ==
    {s \in [1..Cardinality(S) -> S] : \A i, j \in DOMAIN s : s[i] = s[j] => i = j}

\* fs::read_dir(base_path) filtered to regular files (file_type.is_file()).
root_files(f) == {q \in Children(f, base_path) : f[q].kind = "file"}

\* The files an orchestrator selects: cli applies the compiled filters,
\* main (handle_organize) takes every regular file.
selected(f, orchestrator, filters) ==
    {q \in root_files(f) : orchestrator = "main" \/ should_include(filters, q)}

\* The renames seen between the trees f and g among the pairs <<from, to>>:
\* the file that was at `from` is gone from there and its content is at `to`.
seen_renamed(f, g, from, to) ==
    /\ is_file(f, from) /\ ~exists(g, from)
    /\ is_file(g, to) /\ g[to].content = f[from].content

\* A command starts: the one before it is remembered.
Start(cmd) ==
    /\ pc = "idle"
    /\ runs < MaxRuns
    /\ runs' = runs + 1
    /\ start_fs' = fs
    /\ performed' = <<>>
    /\ touched' = FALSE
    /\ previous' = [result |-> result, start_fs |-> start_fs, log |-> operation_log,
                    report |-> report, performed |-> performed, clean |-> ~touched]
    /\ UNCHANGED <<now, rules, edits>>

\* organize_directory_with_config / handle_organize up to the first move:
\* configuration, read_dir, filtering and type detection.
OrganizeStart(orchestrator) ==
    /\ Start("organize")
    /\ LET filters == compile(rules)
           err(status) ==
               /\ result' = [cmd |-> "organize", status |-> status, saved |-> FALSE]
               /\ attempts' = [by |-> orchestrator, calls |-> <<>>]
               /\ UNCHANGED <<fs, pc, file_infos, operation_log, organize_failed,
                              todo, report, summary>>
       IN IF orchestrator = "cli" /\ ~filters.ok THEN err(config_error(filters))
          ELSE IF ~is_dir(fs, base_path) THEN err("Err: reading directory")
          ELSE \E order \in Orders(selected(fs, orchestrator, filters)) :
               /\ file_infos' = [i \in DOMAIN order |-> detect_file_type(fs, order[i])]
               /\ operation_log' = OperationLog_new(base_path, now)
               /\ organize_failed' = FALSE
               /\ attempts' = [by |-> orchestrator, calls |-> <<>>]
               /\ pc' = "organize"
               /\ result' = [cmd |-> "organize", status |-> "running", saved |-> FALSE]
               /\ UNCHANGED <<fs, todo, report, summary>>

\* A loop that gives up the rest of the batch at the first failed move.
OrganizeMove_stopping ==
    /\ pc = "organize"
    /\ file_infos # <<>>
    /\ LET info == Head(file_infos)
           moved == move_to_category_with_record(fs, info.path, dir_name(info.category))
           to == join(join(base_path, N(dir_name(info.category))), file_name(info.path))
       IN /\ fs' = moved.fs
          /\ IF moved.result = "Ok"
             THEN /\ operation_log' = add_operation(operation_log, moved.operation)
                  /\ file_infos' = Tail(file_infos)
                  /\ UNCHANGED organize_failed
             ELSE /\ organize_failed' = TRUE
                  /\ file_infos' = <<>>
                  /\ UNCHANGED operation_log
          /\ performed' = IF seen_renamed(fs, fs', info.path, to)
                          THEN Append(performed, <<info.path, to>>)
                          ELSE performed
          /\ attempts' = [attempts EXCEPT !.calls =
                              Append(@, <<info.path, moved.result, dir_name(info.category)>>)]
    /\ UNCHANGED <<now, rules, edits, runs, pc, todo, report, result, summary,
                   start_fs, touched, previous>>

\* One turn of the loop `for info in &file_infos`.
OrganizeMove ==
    /\ pc = "organize"
    /\ file_infos # <<>>
    /\ LET info == Head(file_infos)
           moved == move_to_category_with_record(fs, info.path, dir_name(info.category))
           to == join(join(base_path, N(dir_name(info.category))), file_name(info.path))
       IN /\ fs' = moved.fs
          /\ IF moved.result = "Ok"
             THEN /\ operation_log' = add_operation(operation_log, moved.operation)
                  /\ UNCHANGED organize_failed
             ELSE /\ organize_failed' = TRUE
                  /\ UNCHANGED operation_log
          /\ performed' = IF seen_renamed(fs, fs', info.path, to)
                          THEN Append(performed, <<info.path, to>>)
                          ELSE performed
          /\ attempts' = [attempts EXCEPT !.calls =
                              Append(@, <<info.path, moved.result, dir_name(info.category)>>)]
    /\ file_infos' = Tail(file_infos)
    /\ UNCHANGED <<now, rules, edits, runs, pc, todo, report, result, summary,
                   start_fs, touched, previous>>

\* An end of organize that saves the log only when it holds an operation.
OrganizeSave_unless_empty ==
    /\ pc = "organize"
    /\ file_infos = <<>>
    /\ LET saved == IF operation_log.operations = <<>>
                    THEN [ok |-> FALSE, fs |-> fs]
                    ELSE save(operation_log, fs)
       IN /\ fs' = saved.fs
          /\ result' = [cmd |-> "organize", status |-> "Ok", saved |-> saved.ok]
    /\ pc' = "idle"
    /\ UNCHANGED <<now, rules, edits, runs, file_infos, operation_log, organize_failed,
                   todo, report, summary, start_fs, performed, touched, previous,
                   attempts>>

\* After the loop: the log is saved, a failure to save is only warned about
\* and the command returns Ok(()).
OrganizeSave ==
    /\ pc = "organize"
    /\ file_infos = <<>>
    /\ LET saved == save(operation_log, fs)
       IN /\ fs' = saved.fs
          /\ result' = [cmd |-> "organize", status |-> "Ok", saved |-> saved.ok]
    /\ pc' = "idle"
    /\ UNCHANGED <<now, rules, edits, runs, file_infos, operation_log, organize_failed,
                   todo, report, summary, start_fs, performed, touched, previous,
                   attempts>>

\* A dry run that creates the category directories it counts files for.
DryRun_creating ==
    /\ Start("dry_run")
    /\ is_dir(fs, base_path)
    /\ compile(rules).ok
    /\ LET infos == {detect_file_type(fs, q) : q \in selected(fs, "cli", compile(rules))}
           dirs == {join(base_path, N(dir_name(i.category))) : i \in infos}
       IN fs' = [d \in dirs \ DOMAIN fs |-> DirEntry(FALSE)] @@ fs
    /\ result' = [cmd |-> "dry_run", status |-> "Ok", saved |-> FALSE]
    /\ UNCHANGED <<pc, locals, summary>>

\* A dry run that counts every regular file, whatever the filters say.
DryRun_unfiltered ==
    /\ Start("dry_run")
    /\ LET filters == compile(rules)
       IN IF ~filters.ok
          THEN /\ result' = [cmd |-> "dry_run", status |-> config_error(filters), saved |-> FALSE]
               /\ UNCHANGED summary
          ELSE IF ~is_dir(fs, base_path)
          THEN /\ result' = [cmd |-> "dry_run", status |-> "Err: reading directory", saved |-> FALSE]
               /\ UNCHANGED summary
          ELSE LET infos == {detect_file_type(fs, q) : q \in root_files(fs)}
                   dirs == {dir_name(i.category) : i \in infos}
               IN /\ summary' = [d \in dirs |->
                                    Cardinality({i \in infos : dir_name(i.category) = d})]
                  /\ result' = [cmd |-> "dry_run", status |-> "Ok", saved |-> FALSE]
    /\ UNCHANGED <<fs, pc, locals>>

\* organize_directory_dry_run_with_config
DryRun ==
    /\ Start("dry_run")
    /\ LET filters == compile(rules)
       IN IF ~filters.ok
          THEN /\ result' = [cmd |-> "dry_run", status |-> config_error(filters), saved |-> FALSE]
               /\ UNCHANGED summary
          ELSE IF ~is_dir(fs, base_path)
          THEN /\ result' = [cmd |-> "dry_run", status |-> "Err: reading directory", saved |-> FALSE]
               /\ UNCHANGED summary
          ELSE LET infos == {detect_file_type(fs, q) : q \in selected(fs, "cli", filters)}
                   dirs == {dir_name(i.category) : i \in infos}
               IN /\ summary' = [d \in dirs |->
                                    Cardinality({i \in infos : dir_name(i.category) = d})]
                  /\ result' = [cmd |-> "dry_run", status |-> "Ok", saved |-> FALSE]
    /\ UNCHANGED <<fs, pc, locals>>

\* An undo that replays the operations in the order of the log.
UndoStart_forward ==
    /\ Start("undo")
    /\ LET loaded == load(fs)
           err(status) ==
               /\ result' = [cmd |-> "undo", status |-> status, saved |-> FALSE]
               /\ UNCHANGED <<pc, locals>>
       IN IF ~exists(fs, base_path) THEN err("InvalidBasePath")
          ELSE IF loaded.tag = "None" THEN err("InvalidHistoryFormat")
          ELSE IF loaded.tag # "Some" THEN err(loaded.tag)
          ELSE /\ operation_log' = loaded.log
               /\ todo' = loaded.log.operations
               /\ report' = UndoReport_new
               /\ pc' = "undo"
               /\ result' = [cmd |-> "undo", status |-> "running", saved |-> FALSE]
               /\ UNCHANGED <<file_infos, organize_failed, attempts>>
    /\ UNCHANGED <<fs, summary>>

\* UndoManager::undo up to the replay loop: the base path is checked and
\* the log loaded.
UndoStart ==
    /\ Start("undo")
    /\ LET loaded == load(fs)
           err(status) ==
               /\ result' = [cmd |-> "undo", status |-> status, saved |-> FALSE]
               /\ UNCHANGED <<pc, locals>>
       IN IF ~exists(fs, base_path) THEN err("InvalidBasePath")
          ELSE IF loaded.tag = "None" THEN err("InvalidHistoryFormat")
          ELSE IF loaded.tag # "Some" THEN err(loaded.tag)
          ELSE /\ operation_log' = loaded.log
               /\ todo' = [i \in DOMAIN loaded.log.operations |->
                             loaded.log.operations[Len(loaded.log.operations) + 1 - i]]
               /\ report' = UndoReport_new
               /\ pc' = "undo"
               /\ result' = [cmd |-> "undo", status |-> "running", saved |-> FALSE]
               /\ UNCHANGED <<file_infos, organize_failed, attempts>>
    /\ UNCHANGED <<fs, summary>>

\* A replay that gives up the rest of the log at the first operation that is
\* not restored.
UndoStep_stopping ==
    /\ pc = "undo"
    /\ todo # <<>>
    /\ LET operation == Head(todo)
           r == restore_file(fs, operation, now)
       IN /\ fs' = r.fs
          /\ report' =
                IF r.result = "Ok"
                THEN [report EXCEPT !.restored_files = @ + 1]
                ELSE IF contains_not_found(r.reason)
                THEN [report EXCEPT !.skipped_files = Append(@, <<r.path, r.reason>>)]
                ELSE [report EXCEPT !.failed_restores = Append(@, <<r.path, r.reason>>)]
          /\ performed' =
                IF seen_renamed(fs, fs', operation.new_path, operation.original_path)
                THEN Append(performed, <<operation.new_path, operation.original_path>>)
                ELSE performed
          /\ todo' = IF r.result = "Ok" THEN Tail(todo) ELSE <<>>
    /\ UNCHANGED <<now, rules, edits, runs, pc, file_infos, operation_log,
                   organize_failed, result, summary, start_fs, touched, previous,
                   attempts>>

\* One turn of the loop `for operation in log.operations.iter().rev()`.
UndoStep ==
    /\ pc = "undo"
    /\ todo # <<>>
    /\ LET operation == Head(todo)
           r == restore_file(fs, operation, now)
       IN /\ fs' = r.fs
          /\ report' =
                IF r.result = "Ok"
                THEN [report EXCEPT !.restored_files = @ + 1]
                ELSE IF contains_not_found(r.reason)
                THEN [report EXCEPT !.skipped_files = Append(@, <<r.path, r.reason>>)]
                ELSE [report EXCEPT !.failed_restores = Append(@, <<r.path, r.reason>>)]
          /\ performed' =
                IF seen_renamed(fs, fs', operation.new_path, operation.original_path)
                THEN Append(performed, <<operation.new_path, operation.original_path>>)
                ELSE performed
    /\ todo' = Tail(todo)
    /\ UNCHANGED <<now, rules, edits, runs, pc, file_infos, operation_log,
                   organize_failed, result, summary, start_fs, touched, previous,
                   attempts>>

\* An undo that, on complete success, also removes the directories under
\* base_path that the restores have emptied.
UndoFinish_tidying ==
    /\ pc = "undo"
    /\ todo = <<>>
    /\ LET g == IF is_complete_success(report) THEN delete(fs).fs ELSE fs
           emptied == {d \in DOMAIN g : /\ Len(d) = 1 /\ is_dir(g, d)
                                        /\ \A q \in DOMAIN g : Len(q) = 2 => parent(q) # d}
       IN fs' = IF is_complete_success(report)
                THEN [q \in DOMAIN g \ emptied |-> g[q]]
                ELSE g
    /\ result' = [cmd |-> "undo", status |-> "Ok", saved |-> FALSE]
    /\ pc' = "idle"
    /\ UNCHANGED <<now, rules, edits, runs, file_infos, operation_log, organize_failed,
                   todo, report, summary, start_fs, performed, touched, previous,
                   attempts>>

\* After the loop: the history file is deleted on complete success; a failure
\* to delete it is only warned about.  The report is returned.
UndoFinish ==
    /\ pc = "undo"
    /\ todo = <<>>
    /\ fs' = IF is_complete_success(report) THEN delete(fs).fs ELSE fs
    /\ result' = [cmd |-> "undo", status |-> "Ok", saved |-> FALSE]
    /\ pc' = "idle"
    /\ UNCHANGED <<now, rules, edits, runs, file_infos, operation_log, organize_failed,
                   todo, report, summary, start_fs, performed, touched, previous,
                   attempts>>

\* -------------------------------------------------------------------- user
\* Between two commands the user may change the directory: write a file,
\* remove one, change the permission of a directory or of the history file
\* (read-only or back), damage the history file.  The clock may advance.
UserContents == {Bytes("png", 5)}

UserPaths(f) ==
    {p \in {<<N("a")>>, <<N("images"), N("a")>>} :
        is_dir(f, parent(p)) /\ ~is_dir(f, p)}

Edit ==
    /\ pc = "idle"
    /\ edits < MaxEdits
    /\ edits' = edits + 1
    /\ touched' = TRUE
    /\ UNCHANGED <<now, rules, runs, pc, locals, result, summary, start_fs,
                   performed, previous>>

UserWrite ==
    /\ Edit
    /\ \E p \in UserPaths(fs), c \in UserContents :
        /\ ~(is_file(fs, p) /\ fs[p].content = c)
        /\ fs' = (p :> FileEntry(c)) @@ fs

UserRemove ==
    /\ Edit
    /\ \E p \in DOMAIN fs :
        /\ fs[p].kind = "file"
        /\ fs' = [q \in (DOMAIN fs) \ {p} |-> fs[q]]

UserChmod ==
    /\ Edit
    /\ \E d \in DOMAIN fs :
        /\ fs[d].kind = "dir" \/ d = history_file_path(base_path)
        /\ fs' = [fs EXCEPT ![d].ro = ~@]

\* The history file is replaced by text that is no JSON, by bytes that are
\* no text, or by its own document with a field of the log or of one
\* operation removed.
UserDamage ==
    /\ Edit
    /\ is_file(fs, history_file_path(base_path))
    /\ LET doc == fs[history_file_path(base_path)].content.doc
       IN /\ doc.json /\ doc.present = AllFields
          /\ \E damaged \in
                {Bytes("none", 6), Bytes("png", 6)}
                \cup {JsonBytes([doc EXCEPT !.present = @ \ {x}]) : x \in AllFields}
                \cup {JsonBytes([doc EXCEPT !.operations[i].present = @ \ {x}]) :
                        i \in DOMAIN doc.operations, x \in OpFields} :
               fs' = [fs EXCEPT ![history_file_path(base_path)].content = damaged]

Tick ==
    /\ pc = "idle"
    /\ now < MaxClock
    /\ now' = now + 1
    /\ UNCHANGED <<fs, rules, edits, runs, pc, locals, result, summary,
                   start_fs, performed, touched, previous>>

\* ------------------------------------------------------------ specification
Next ==
    \/ \E orchestrator \in {"cli", "main"} : OrganizeStart(orchestrator)
    \/ OrganizeMove
    \/ OrganizeSave
    \/ DryRun
    \/ UndoStart
    \/ UndoStep
    \/ UndoFinish
    \/ UserWrite
    \/ UserRemove
    \/ UserChmod
    \/ UserDamage
    \/ Tick

Spec == Init /\ [][Next]_vars

\* ------------------------------------------------- the library, call by call
\* The functions of the library are also called on their own, as the unit
\* tests do: FileOrganizer::move_to_category, CompiledFilters::should_include,
\* FilterConfig::compile, FileMapper::categorize and the functions of
\* OperationLog, on a directory in any of the states below.
ApiFile == FileEntry(Bytes("png", 1))

\* base_path is missing, is a regular file, is a directory (writable or
\* not) that holds a history file, or is a directory (writable or not) that may hold the file a and, as images, nothing, a directory
\* (writable or not, empty or holding its own file a) or a regular file.
ApiTrees ==
    {NoTree, <<>> :> FileEntry(Bytes("none", 7))}
    \cup { (<<>> :> DirEntry(base_ro))
              @@ (history_file_path(base_path) :>
                    FileEntry(JsonBytes(log_json(OperationLog_new(base_path, 1))))) :
            base_ro \in BOOLEAN }
    \cup { (<<>> :> DirEntry(base_ro)) @@ root @@ images :
            base_ro \in BOOLEAN,
            root \in {NoTree, <<N("a")>> :> ApiFile},
            images \in {NoTree, <<N("images")>> :> FileEntry(Bytes("none", 8))}
                       \cup { (<<N("images")>> :> DirEntry(images_ro)) @@ inside :
                               images_ro \in BOOLEAN,
                               inside \in {NoTree,
                                           <<N("images"), N("a")>> :> FileEntry(Bytes("png", 4))} } }

\* The paths that move_to_category is called with.  NoFileName is a path
\* for which Path::file_name returns None, as "/" or a path that ends in
\* ".." does: the path without a last component.
NoFileName == <<>>
ApiPaths == {<<N("a")>>, <<N("b")>>, <<N("images"), N("a")>>, NoFileName}
ApiCategories == {"images", "other"}

\* The patterns of the filter rules, as their characters.
Glob_logs == <<"*", "*", "/", "l", "o", "g", "s", "/", "*", "*">>
Glob_hid == <<"*", "*", "/", ".", "h", "i", "d">>
Glob_f_txt == <<"*", "*", "/", "f", ".", "t", "x", "t">>
Glob_star_txt == <<"*", ".", "t", "x", "t">>
Regex_f == [lit |-> <<"f">>, anchored |-> TRUE]

\* The filter rules that should_include is called with: every combination
\* of a hidden-file policy, an include pattern and one exclude rule of each
\* kind, present or not.
ApiConfigs ==
    { Config([enable_hidden_files |-> hidden,
              exclude |-> [filenames |-> filenames, patterns |-> patterns,
                           extensions |-> extensions, regex |-> regex],
              include |-> [patterns |-> include]]) :
        hidden \in BOOLEAN,
        include \in {<<>>, <<Glob_hid>>, <<Glob_f_txt>>},
        filenames \in {{}, {N("f.txt")}, {N("f.TXT")}},
        extensions \in {{}, {"TXT"}, {"txt"}},
        patterns \in {<<>>, <<Glob_logs>>, <<Glob_star_txt>>},
        regex \in {<<>>, <<Regex_f>>} }

\* Patterns that do not compile: an unclosed bracket, three stars, and two
\* stars that are not a whole path component; an unclosed group.
Glob_bracket == <<"[">>
Glob_stars == <<"*", "*", "*">>
Glob_a_stars == <<"a", "*", "*">>
Regex_group == [lit |-> <<"(">>, anchored |-> FALSE]
Regex_group_a == [lit |-> <<"(", "a">>, anchored |-> FALSE]

\* The sequences over S of at most n elements.
SeqsUpTo(S, n) == UNION {[1..k -> S] : k \in 0..n}

\* The filter rules that compile is called with: up to MaxPatterns exclude
\* globs, up to one include glob and up to MaxPatterns exclude regexes, each
\* one valid or not.
CompileConfigs ==
    { Config([default_rules EXCEPT !.exclude.patterns = patterns,
                                   !.include.patterns = include,
                                   !.exclude.regex = regex]) :
        patterns \in SeqsUpTo({Glob_logs, Glob_bracket, Glob_a_stars}, MaxPatterns),
        include \in SeqsUpTo({Glob_hid, Glob_bracket, Glob_stars}, 1),
        regex \in SeqsUpTo({Regex_f, Regex_group, Regex_group_a}, MaxPatterns) }

\* The paths that should_include is asked about, each spelled from base_path
\* on and relative to the current directory.
FilterPaths ==
    LET tails == { <<N("f.txt")>>, <<N("f.TXT")>>, <<N(".hid")>>, <<N("b")>>, <<N("logs")>>,
                   <<N("logs"), N("f.txt")>>, <<N("app"), N("logs"), N("f.txt")>>,
                   <<N("my_logs"), N("f.txt")>>, <<N("app"), N("my_logs"), N("f.txt")>>,
                   <<N("logs"), N("b")>>, <<N("my_logs"), N("b")>> }
    IN tails \cup {<<CWD>> \o t : t \in tails}

ApiInit ==
    /\ \/ fs \in ApiTrees /\ rules = NoConfig
       \/ fs = EmptyTree /\ rules \in ApiConfigs
       \/ fs = EmptyTree /\ rules \in CompileConfigs
    /\ now = 0
    /\ edits = 0
    /\ runs = 0
    /\ pc = "idle"
    /\ file_infos = <<>>
    /\ operation_log = OperationLog_new(base_path, 0)
    /\ organize_failed = FALSE
    /\ todo = <<>>
    /\ report = UndoReport_new
    /\ result = NoResult
    /\ summary = <<>>
    /\ start_fs = fs
    /\ performed = <<>>
    /\ touched = FALSE
    /\ previous = NoPrevious
    /\ attempts = NoAttempts

\* One call of move_to_category_with_record(base_path, file_path,
\* category_dir_name): the arguments and the result are kept in attempts,
\* the Operation returned in operation_log.
CallMoveToCategory ==
    /\ result = NoResult
    /\ \E file_path \in ApiPaths, category_dir_name \in ApiCategories :
        LET moved == move_to_category_with_record(fs, file_path, category_dir_name)
        IN /\ fs' = moved.fs
           /\ result' = [cmd |-> "move_to_category", status |-> moved.result, saved |-> FALSE]
           /\ attempts' = [by |-> "api",
                           calls |-> <<<<file_path, moved.result, category_dir_name>>>>]
           /\ operation_log' = add_operation(operation_log, moved.operation)
    /\ UNCHANGED <<now, rules, edits, runs, pc, file_infos, organize_failed, todo,
                   report, summary, start_fs, performed, touched, previous>>

\* One call of CompiledFilters::should_include(file_path) on the compiled
\* rules: the argument and the verdict are kept in attempts.
CallShouldInclude ==
    /\ result = NoResult
    /\ compile(rules).ok
    /\ \E file_path \in FilterPaths :
        LET verdict == IF should_include(compile(rules), file_path)
                       THEN "include" ELSE "exclude"
        IN /\ result' = [cmd |-> "should_include", status |-> verdict, saved |-> FALSE]
           /\ attempts' = [by |-> "api", calls |-> <<<<file_path, verdict>>>>]
    /\ UNCHANGED <<fs, now, rules, edits, runs, pc, file_infos, operation_log,
                   organize_failed, todo, report, summary, start_fs, performed,
                   touched, previous>>

\* One call of FilterConfig::compile on the rules: what it returned is kept
\* in attempts.
CallCompile ==
    /\ result = NoResult
    /\ rules.file = "ok"
    /\ LET compiled == new(rules.filters)
       IN /\ result' = [cmd |-> "compile",
                        status |-> IF compiled.ok THEN "Ok" ELSE compiled.error,
                        saved |-> FALSE]
          /\ attempts' = [by |-> "api", calls |-> <<compiled>>]
    /\ UNCHANGED <<fs, now, rules, edits, runs, pc, file_infos, operation_log,
                   organize_failed, todo, report, summary, start_fs, performed,
                   touched, previous>>

\* The MIME types and extensions that categorize is called with: absent, in
\* the table in either letter case, and unknown.
ApiMimes == {NONE, "image/png", "IMAGE/PNG", "text/plain", "unknown/type"}
ApiExtensions == {NONE, "png", "PNG", "txt", "TXT", "py", "xyz"}

\* One call of FileMapper::categorize(mime_type, ext): the arguments and the
\* category returned are kept in attempts.
CallCategorize ==
    /\ result = NoResult
    /\ \E mime_type \in ApiMimes, ext \in ApiExtensions :
        LET category == categorize(mime_type, ext)
        IN /\ result' = [cmd |-> "categorize", status |-> category, saved |-> FALSE]
           /\ attempts' = [by |-> "api", calls |-> <<<<mime_type, ext, category>>>>]
    /\ UNCHANGED <<fs, now, rules, edits, runs, pc, file_infos, operation_log,
                   organize_failed, todo, report, summary, start_fs, performed,
                   touched, previous>>

\* The logs that save is called with: created at any time of the clock,
\* holding up to MaxOperations operations, on a file a and on a file whose
\* name is not UTF-8.
MaxOperations == 2

ApiOperations ==
    { [original_path |-> <<N("a")>>, new_path |-> <<N("images"), N("a")>>,
       category |-> "images"],
      [original_path |-> <<N("x\\xFF")>>, new_path |-> <<N("other"), N("x\\xFF")>>,
       category |-> "other"] }

ApiLogs ==
    { [timestamp |-> time, base_path |-> base_path, operations |-> operations] :
        time \in 0..MaxClock, operations \in SeqsUpTo(ApiOperations, MaxOperations) }

\* The functions of OperationLog are called one after the other on the same
\* base_path, with no filter rules loaded: a log may be saved, then load and
\* delete follow in any order.  The call before is remembered.
LogCall ==
    /\ result.cmd \in {"none", "save", "load", "delete"}
    /\ rules = NoConfig
    /\ runs < MaxCalls
    /\ runs' = runs + 1
    /\ start_fs' = fs
    /\ previous' = [NoPrevious EXCEPT !.result = result, !.start_fs = start_fs,
                                      !.log = operation_log]
    /\ UNCHANGED <<now, rules, edits, pc, file_infos, organize_failed, todo, report,
                   summary, performed, touched>>

\* One call of log.save(base_path): the log is kept in attempts.
CallSave ==
    /\ LogCall
    /\ result = NoResult
    /\ \E log \in ApiLogs :
        LET saved == save(log, fs)
        IN /\ fs' = saved.fs
           /\ result' = [cmd |-> "save",
                         status |-> IF saved.ok THEN "Ok" ELSE "HistoryWriteFailed",
                         saved |-> saved.ok]
           /\ attempts' = [by |-> "api", calls |-> <<log>>]
    /\ UNCHANGED operation_log

\* One call of OperationLog::load(base_path): the log it returns is kept in
\* operation_log, Ok(None), Ok(Some) or the error in result.
CallLoad ==
    /\ LogCall
    /\ LET loaded == load(fs)
       IN /\ result' = [cmd |-> "load", status |-> loaded.tag, saved |-> FALSE]
          /\ operation_log' = loaded.log
    /\ UNCHANGED <<fs, attempts>>

\* One call of OperationLog::delete(base_path).
CallDelete ==
    /\ LogCall
    /\ LET deleted == delete(fs)
       IN /\ fs' = deleted.fs
          /\ result' = [cmd |-> "delete",
                        status |-> IF deleted.ok THEN "Ok" ELSE "HistoryWriteFailed",
                        saved |-> FALSE]
    /\ UNCHANGED <<operation_log, attempts>>

ApiNext ==
    \/ CallMoveToCategory
    \/ CallShouldInclude
    \/ CallCompile
    \/ CallCategorize
    \/ CallSave
    \/ CallLoad
    \/ CallDelete

ApiSpec == ApiInit /\ [][ApiNext]_vars

\* ------------------------------------------------ undo on a found directory
\* UndoManager::undo is also called on a directory as an earlier session left
\* it: base_path holds a history file with a log of up to two operations, a
\* category directory (writable or not), and any of the recorded files at
\* its new path, files at the original paths, and files with the name of a
\* backup, left by an earlier undo or put there by the user.
UndoOperations ==
    { [original_path |-> <<N(n)>>, new_path |-> <<N("images"), N(n)>>,
       category |-> "images"] : n \in {"a", "b"} }

UndoLogs ==
    { [timestamp |-> 0, base_path |-> base_path, operations |-> operations] :
        operations \in {o \in SeqsUpTo(UndoOperations, MaxOperations) :
                            \A i, j \in DOMAIN o : o[i] = o[j] => i = j} }

\* The files that may be found, each with bytes of its own.
UndoFiles ==
    (<<N("images"), N("a")>> :> FileEntry(Bytes("png", 1)))
    @@ (<<N("images"), N("b")>> :> FileEntry(Bytes("png", 2)))
    @@ (<<N("a")>> :> FileEntry(Bytes("png", 3)))
    @@ (<<N("b")>> :> FileEntry(Bytes("png", 4)))
    @@ (<<[base |-> "a", bak |-> <<0>>]>> :> FileEntry(Bytes("png", 5)))
    @@ (<<[base |-> "a", bak |-> <<1>>]>> :> FileEntry(Bytes("png", 6)))

UndoTrees ==
    { (<<>> :> DirEntry(FALSE))
          @@ (history_file_path(base_path) :> FileEntry(JsonBytes(log_json(log))))
          @@ (<<N("images")>> :> DirEntry(images_ro))
          @@ [q \in found |-> UndoFiles[q]] :
        log \in UndoLogs, images_ro \in BOOLEAN, found \in SUBSET DOMAIN UndoFiles }

UndoInit ==
    /\ fs \in UndoTrees
    /\ rules = NoConfig
    /\ now = 0
    /\ edits = 0
    /\ runs = 0
    /\ pc = "idle"
    /\ file_infos = <<>>
    /\ operation_log = OperationLog_new(base_path, 0)
    /\ organize_failed = FALSE
    /\ todo = <<>>
    /\ report = UndoReport_new
    /\ result = NoResult
    /\ summary = <<>>
    /\ start_fs = fs
    /\ performed = <<>>
    /\ touched = FALSE
    /\ previous = NoPrevious
    /\ attempts = NoAttempts

\* Undo is called, once or again, and the clock may advance between two
\* calls.
UndoNext ==
    \/ UndoStart
    \/ UndoStep
    \/ UndoFinish
    \/ Tick

UndoSpec == UndoInit /\ [][UndoNext]_vars

\* ------------------------------------------------------------------ claims
\* The command cmd has returned and the user has changed nothing since it
\* started.
Returned(cmd) == pc = "idle" /\ result.cmd = cmd /\ ~touched

\* The undo that has just returned replayed its whole log.
UndoReturned == Returned("undo") /\ result.status = "Ok"

\* The organize that has just returned went through its batch.
OrganizeReturned == Returned("organize") /\ result.status = "Ok"

Operations == {operation_log.operations[i] : i \in DOMAIN operation_log.operations}

\* C1: round trip.  When an undo starts with every recorded file at its
\* recorded new path and reports complete success, every recorded file is at
\* its original path, is no longer at its new path, and holds the bytes it
\* held at the new path when the undo started.
C1_RoundTrip ==
    (/\ UndoReturned
     /\ is_complete_success(report)
     /\ \A op \in Operations : is_file(start_fs, op.new_path))
    => \A op \in Operations :
        /\ is_file(fs, op.original_path)
        /\ ~exists(fs, op.new_path)
        /\ fs[op.original_path].content = start_fs[op.new_path].content

\* C2: an organize followed, with no change in between, by a completely
\* successful undo leaves every regular file that was under base_path before
\* the organize (the history file of an earlier run aside) at its path with
\* its content.
C2_LayoutReconstructed ==
    (/\ UndoReturned
     /\ is_complete_success(report)
     /\ previous.result = [cmd |-> "organize", status |-> "Ok", saved |-> TRUE]
     /\ previous.clean)
    => \A p \in DOMAIN previous.start_fs :
        (previous.start_fs[p].kind = "file" /\ p # history_file_path(base_path))
        => (is_file(fs, p) /\ fs[p].content = previous.start_fs[p].content)

\* C3: after undo, if an operation was skipped or failed the history file
\* exists with the content it had when the undo started; if none was, the
\* history file is gone, unless its removal failed (base_path not writable).
C3_HistoryRemovedIffComplete ==
    UndoReturned =>
        IF is_complete_success(report)
        THEN ~exists(fs, history_file_path(base_path)) \/ ~writable_dir(fs, base_path)
        ELSE /\ is_file(fs, history_file_path(base_path))
             /\ fs[history_file_path(base_path)] = start_fs[history_file_path(base_path)]

\* The next turn of the undo loop replays an operation whose moved file is
\* at new_path while a file occupies original_path.
ConflictStep ==
    /\ pc = "undo" /\ todo # <<>>
    /\ exists(fs, Head(todo).new_path)
    /\ is_file(fs, Head(todo).original_path)

\* What C4 promises of such a turn: the occupant is at <name>.bak.<now> in
\* the same directory with its content, the moved file's content is at
\* original_path, and restored_files alone has grown.
ConflictResolved ==
    LET op == Head(todo)
        backup == join(parent(op.original_path),
                       [file_name(op.original_path) EXCEPT !.bak = Append(@, now)])
    IN /\ is_file(fs', backup)
       /\ fs'[backup].content = fs[op.original_path].content
       /\ is_file(fs', op.original_path)
       /\ fs'[op.original_path].content = fs[op.new_path].content
       /\ ~exists(fs', op.new_path)
       /\ report' = [report EXCEPT !.restored_files = @ + 1]

\* C4 as stated: every such turn resolves the conflict.
C4_ConflictAlwaysResolved == [][ConflictStep => ConflictResolved]_vars

\* C4, amended: such a turn resolves the conflict when the directories of
\* original_path and new_path are writable; otherwise the operation is
\* recorded in failed_restores and the moved file stays at new_path.
C4_ConflictResolvedIfWritable ==
    [][ConflictStep =>
        IF /\ writable_dir(fs, parent(Head(todo).original_path))
           /\ writable_dir(fs, parent(Head(todo).new_path))
        THEN ConflictResolved
        ELSE /\ Len(report'.failed_restores) = Len(report.failed_restores) + 1
             /\ report'.restored_files = report.restored_files
             /\ report'.skipped_files = report.skipped_files
             /\ exists(fs', Head(todo).new_path)
             /\ fs'[Head(todo).new_path] = fs[Head(todo).new_path]]_vars

\* A conflict has been resolved with a backup: the undo restored a file and
\* a backup file stands beside it.
C4_Witness ==
    /\ pc = "undo"
    /\ \E i \in DOMAIN performed :
        LET to == performed[i][2]
        IN /\ to # history_file_path(base_path)
           /\ join(parent(to), [file_name(to) EXCEPT !.bak = Append(@, now)]) \in DOMAIN fs

\* The next turn of the undo loop replays an operation whose new_path does
\* not exist.
SkipStep == pc = "undo" /\ todo # <<>> /\ ~exists(fs, Head(todo).new_path)

\* The undo loop has ended with a skipped operation in the report and the
\* command returns.
ReturnWithSkip == pc = "undo" /\ todo = <<>> /\ pc' = "idle" /\ report.skipped_files # <<>>

\* C5: a turn on an operation whose new_path does not exist appends it to
\* skipped_files with the reason "... not found ...", leaves failed_restores,
\* restored_files and the tree as they were; and an undo that skipped an
\* operation returns with the history file in place.
C5_MissingFileSkipped ==
    [][/\ SkipStep =>
            /\ fs' = fs
            /\ Len(report'.skipped_files) = Len(report.skipped_files) + 1
            /\ report'.skipped_files[Len(report'.skipped_files)][1] = Head(todo).new_path
            /\ contains_not_found(report'.skipped_files[Len(report'.skipped_files)][2])
            /\ report'.failed_restores = report.failed_restores
            /\ report'.restored_files = report.restored_files
       /\ ReturnWithSkip => is_file(fs', history_file_path(base_path))]_vars

\* The history file as the current or last command found it.
history_at_start == start_fs[history_file_path(base_path)].content

NoBasePath == ~exists(start_fs, base_path)

NoHistoryFile ==
    exists(start_fs, base_path) /\ ~exists(start_fs, history_file_path(base_path))

\* The history file holds no JSON document: text that is no JSON, or bytes
\* that are no text.
Unparsable == is_file(start_fs, history_file_path(base_path)) /\ ~history_at_start.doc.json

\* The history file is a JSON document without one of the fields of the log
\* or of one of its operations.
MissingField ==
    /\ is_file(start_fs, history_file_path(base_path))
    /\ history_at_start.doc.json
    /\ \/ history_at_start.doc.present # AllFields
       \/ \E i \in DOMAIN history_at_start.doc.operations :
            history_at_start.doc.operations[i].present # OpFields

\* The command is over and the tree is as it was when the command started.
NothingReplayed == pc = "idle" /\ (~touched => fs = start_fs)

Renames(seq) == {seq[i] : i \in DOMAIN seq}

\* The undo that has just returned replayed the log that the undo before it
\* had replayed and kept.
SecondUndo ==
    /\ UndoReturned
    /\ previous.result = [cmd |-> "undo", status |-> "Ok", saved |-> FALSE]
    /\ ~is_complete_success(previous.report)
    /\ previous.log = operation_log

\* The file of the operation is at new_path and can be moved: the
\* directories of both paths are writable.
Restorable(f, op) ==
    /\ is_file(f, op.new_path)
    /\ writable_dir(f, parent(op.new_path))
    /\ writable_dir(f, parent(op.original_path))

\* q is a ".bak.<timestamp>" path of p.
IsBackupOf(q, p) ==
    /\ Len(q) > 0 /\ Len(p) > 0
    /\ parent(q) = parent(p)
    /\ file_name(q).base = file_name(p).base
    /\ Len(file_name(q).bak) = Len(file_name(p).bak) + 1
    /\ SubSeq(file_name(q).bak, 1, Len(file_name(p).bak)) = file_name(p).bak

C8_DryRunLeavesTree == Returned("dry_run") => fs = start_fs

\* A dry run has counted files of a directory that holds a history file.
C8_Witness ==
    /\ Returned("dry_run")
    /\ result.status = "Ok"
    /\ DOMAIN summary # {}
    /\ is_file(fs, history_file_path(base_path))

stored_operations(f) == f[history_file_path(base_path)].content.doc.operations

\* C10: when an organize has returned with its log saved, the history file
\* holds one operation for each file that the run was seen to move, in the
\* order of the moves, and no other.
C10_LogIsTheMoves ==
    (OrganizeReturned /\ result.saved) =>
        /\ is_file(fs, history_file_path(base_path))
        /\ fs[history_file_path(base_path)].content.doc.json
        /\ stored_operations(fs) =
              [i \in DOMAIN performed |->
                  [original_path |-> performed[i][1],
                   new_path |-> performed[i][2],
                   category |-> performed[i][2][1].base,
                   present |-> OpFields]]

\* An organize has saved the log of a file it moved while the move of
\* another file failed, which is still in base_path.
C10_Witness ==
    /\ OrganizeReturned /\ result.saved
    /\ organize_failed
    /\ Len(performed) >= 1
    /\ \E p \in DOMAIN fs : Len(p) = 1 /\ fs[p].kind = "file" /\ p # history_file_path(base_path)

\* ---------------------------------------------------------- batch of moves
\* The calls of move_to_category_with_record of the current or last organize.
Calls == attempts.calls

IsOk(call) == call[2] = "Ok"
IsMoveError(call) == call[2] \in {"DirectoryCreationFailed", "FileMoveFailure"}

\* The files the run had to select: the regular files that were directly in
\* base_path when it started, filtered when the orchestrator filters.
Selection == selected(start_fs, attempts.by, compile(rules))

\* The Operation that a successful move of the root file p returns.
ExpectedOperation(p) ==
    LET d == dir_name(categorize(infer_get(start_fs[p].content).mime_type,
                                 infer_get(start_fs[p].content).extension))
    IN [original_path |-> p, new_path |-> <<N(d), file_name(p)>>, category |-> d]

\* The history file can be written: it is a file that may be written to, or
\* it does not exist and base_path lets it be created.
HistoryWritable(f) ==
    \/ is_file(f, history_file_path(base_path)) /\ ~f[history_file_path(base_path)].ro
    \/ ~exists(f, history_file_path(base_path)) /\ writable_dir(f, base_path)

\* The history file holds the log of the run, whole.
LogStored ==
    /\ is_file(fs, history_file_path(base_path))
    /\ fs[history_file_path(base_path)].content = JsonBytes(log_json(operation_log))

\* Every selected file was attempted once, the successful moves are the log
\* in their order, and the failure flag is raised.
BatchWentOn ==
    /\ {Calls[i][1] : i \in DOMAIN Calls} = Selection
    /\ Len(Calls) = Cardinality(Selection)
    /\ operation_log.operations =
          [i \in DOMAIN SelectSeq(Calls, IsOk) |-> ExpectedOperation(SelectSeq(Calls, IsOk)[i][1])]
    /\ organize_failed

\* C11 as stated: when an organize has returned in which a move failed with
\* DirectoryCreationFailed or FileMoveFailure, every selected file was
\* attempted exactly once, the log holds the successful moves, the failure
\* flag is set, and the log has been saved.
C11_BatchContinuesAndSaves ==
    (OrganizeReturned /\ \E i \in DOMAIN Calls : IsMoveError(Calls[i]))
        => (BatchWentOn /\ result.saved /\ LogStored)

\* C11, amended: as stated, except that the save at the end succeeds exactly
\* when the history file can be written; when it cannot the run still
\* returns Ok with the history file untouched.
C11_BatchContinues ==
    (OrganizeReturned /\ \E i \in DOMAIN Calls : IsMoveError(Calls[i]))
        => /\ BatchWentOn
           /\ result.saved <=> HistoryWritable(fs)
           /\ result.saved => LogStored

\* An organize has returned after a failed move that was followed by a
\* successful one, with the log saved.
C11_Witness ==
    /\ OrganizeReturned /\ result.saved
    /\ \E i, j \in DOMAIN Calls : i < j /\ IsMoveError(Calls[i]) /\ IsOk(Calls[j])

\* ------------------------------------------------------- the stored log
\* The organize before the one that has just returned also ran to its end
\* and saved its log, and nothing was changed in between.
SecondOrganize ==
    /\ OrganizeReturned /\ result.saved
    /\ previous.result = [cmd |-> "organize", status |-> "Ok", saved |-> TRUE]
    /\ previous.clean

\* The files that the current or last organize moved.
MovedFiles == {Calls[i][1] : i \in {j \in DOMAIN Calls : IsOk(Calls[j])}}

\* C12: when an organize has returned with its log saved, the history file
\* is the saving log and nothing else: one stored operation for each move of
\* this run, each of a file this run moved; and after two organize runs in a
\* row no operation of the first run is stored unless the second run made
\* that move again.
C12_SaveReplaces ==
    (OrganizeReturned /\ result.saved) =>
        /\ LogStored
        /\ Len(stored_operations(fs)) = Len(SelectSeq(Calls, IsOk))
        /\ \A i \in DOMAIN stored_operations(fs) :
              stored_operations(fs)[i].original_path \in MovedFiles
        /\ SecondOrganize =>
              \A k \in DOMAIN previous.log.operations :
                previous.log.operations[k].original_path \notin MovedFiles
                    => \A i \in DOMAIN stored_operations(fs) :
                          stored_operations(fs)[i].original_path
                              # previous.log.operations[k].original_path

\* A second organize in a row has saved a log of no operation over the
\* stored log of the first, which held one at least.
C12_Witness ==
    /\ SecondOrganize
    /\ previous.log.operations # <<>>
    /\ stored_operations(fs) = <<>>

\* ------------------------------------------------------ where files end up
\* The files directly in base_path at the start of the command that pass
\* the filters of the configuration.
PassingFiles ==
    {p \in root_files(start_fs) : compile(rules).ok /\ should_include(compile(rules), p)}

\* C13: when an organize has returned in which no move failed, every regular
\* file that was directly in base_path and passes the filters is at
\* <directory name of its category>/<file name> with its content (PNG bytes
\* under images/) and nothing is at its path in the root any more.
C13_FilesInCategoryDirs ==
    (OrganizeReturned /\ ~organize_failed) =>
        \A p \in PassingFiles :
            /\ is_file(fs, ExpectedOperation(p).new_path)
            /\ fs[ExpectedOperation(p).new_path].content = start_fs[p].content
            /\ (start_fs[p].content.sig = "png") => (ExpectedOperation(p).category = "images")
            /\ ~exists(fs, p)

\* ----------------------------------------------------- configuration errors
\* The configuration cannot be loaded, or one of its patterns does not
\* compile.
ConfigurationError ==
    \/ rules.file \in {"missing", "unreadable", "invalid"}
    \/ /\ rules.file = "ok"
       /\ \/ \E g \in SeqRange(rules.filters.exclude.patterns) : ~Pattern_new(g).ok
          \/ \E g \in SeqRange(rules.filters.include.patterns) : ~Pattern_new(g).ok
          \/ \E r \in SeqRange(rules.filters.exclude.regex) : ~Regex_new(r).ok

\* A command that loads the configuration has returned: an organize through
\* organize_directory_with_config, or a dry run.
ConfiguredReturned ==
    \/ Returned("organize") /\ attempts.by = "cli"
    \/ Returned("dry_run")

\* C14: with a configuration that cannot be read or parsed, or that holds an
\* invalid glob or regular expression, organize and dry run return an error
\* and the tree is as it was: no file moved, no directory created, the
\* history file neither written nor changed.
C14_ConfigErrorAborts ==
    (ConfiguredReturned /\ ConfigurationError) =>
        /\ result.status \in {"Err: loading configuration", "Err: compiling filters"}
        /\ fs = start_fs

\* An organize has returned the error of an invalid pattern over a directory
\* that holds a file to move and the history file of an earlier run.
C14_Witness ==
    /\ Returned("organize") /\ attempts.by = "cli"
    /\ result.status = "Err: compiling filters"
    /\ root_files(fs) \ {history_file_path(base_path)} # {}
    /\ is_file(fs, history_file_path(base_path))

\* ------------------------------------------------------- a save that fails
\* The organize before the undo that has just returned ran to its end but
\* could not save its log, and nothing was changed in between.
UndoAfterFailedSave ==
    /\ Returned("undo")
    /\ previous.result = [cmd |-> "organize", status |-> "Ok", saved |-> FALSE]
    /\ previous.clean

\* C15: when an organize returns without having been able to save its log,
\* it returns Ok all the same and every file it moved is at its category
\* path with its content; and an undo that follows restores none of the
\* moves of that run.
C15_FailedSaveKeepsMoves ==
    /\ (OrganizeReturned /\ ~result.saved) =>
            \A i \in DOMAIN performed :
                /\ is_file(fs, performed[i][2])
                /\ fs[performed[i][2]].content = start_fs[performed[i][1]].content
    /\ UndoAfterFailedSave =>
            \A i \in DOMAIN previous.performed :
                <<previous.performed[i][2], previous.performed[i][1]>> \notin Renames(performed)

\* ------------------------------------------------- move_to_category, alone
\* move_to_category has been called and has returned.
Moved == result.cmd = "move_to_category"

\* The arguments of the call and the Operation it returned.
MovedPath == Calls[1][1]
MovedCategory == Calls[1][3]
MovedTo == <<N(MovedCategory), file_name(MovedPath)>>
Returned_operation == operation_log.operations[1]

\* C16: move_to_category returns InvalidBasePath when base_path does not
\* exist and when base_path exists but is a regular file.
C16_InvalidBasePath ==
    (Moved /\ ~is_dir(start_fs, base_path)) => result.status = "InvalidBasePath"

\* What C17 promises of a successful call, but for the source path: the
\* category directory is a directory (the one that was there, if one was),
\* the file is at the destination with its content, and the Operation
\* returned names the two paths and the category.
MoveDone ==
    /\ is_dir(fs, <<N(MovedCategory)>>)
    /\ exists(start_fs, <<N(MovedCategory)>>)
            => fs[<<N(MovedCategory)>>] = start_fs[<<N(MovedCategory)>>]
    /\ is_file(fs, MovedTo)
    /\ fs[MovedTo].content = start_fs[MovedPath].content
    /\ Returned_operation =
          [original_path |-> MovedPath, new_path |-> MovedTo, category |-> MovedCategory]

\* C17 as stated: after a successful move_to_category all of the above
\* holds and nothing is at file_path any more.
C17_MoveToCategory ==
    (Moved /\ result.status = "Ok") => (MoveDone /\ ~exists(fs, MovedPath))

\* C17, amended: as stated, except that a file which already was at the
\* destination (file_path is base_path/category_dir_name/<filename>) is
\* still there, at file_path.
C17_MoveToCategoryElsewhere ==
    (Moved /\ result.status = "Ok") =>
        /\ MoveDone
        /\ ~exists(fs, MovedPath) <=> (MovedPath # MovedTo)

\* A call has moved a file into a category directory that it had to create,
\* in place of nothing.
C17_Witness ==
    /\ Moved /\ result.status = "Ok"
    /\ ~exists(start_fs, <<N(MovedCategory)>>)
    /\ MovedPath # MovedTo

\* ------------------------------------------------------ the order of undo
\* The places in the log of the operations that name the path p.
LogIndexes(p) ==
    {i \in DOMAIN operation_log.operations :
        operation_log.operations[i].new_path = p \/ operation_log.operations[i].original_path = p}

\* The paths come from operations of the log, each from one that was
\* recorded before the one of the path ahead of it.
LastFirst(paths) ==
    /\ \A i \in DOMAIN paths : LogIndexes(paths[i]) # {}
    /\ \A i, j \in DOMAIN paths :
          i < j => \A x \in LogIndexes(paths[i]), y \in LogIndexes(paths[j]) : x > y

\* C18: when undo has returned, the files it restored were restored in the
\* reverse of the order of the log, the operation recorded last first, and
\* the entries of skipped_files and of failed_restores stand in that
\* reverse order too.
C18_ReverseOrder ==
    UndoReturned =>
        /\ LastFirst([i \in DOMAIN performed |-> performed[i][1]])
        /\ LastFirst([i \in DOMAIN report.skipped_files |-> report.skipped_files[i][1]])
        /\ LastFirst([i \in DOMAIN report.failed_restores |-> report.failed_restores[i][1]])

\* An undo has returned that restored no file of a log of two operations:
\* it skipped or failed both.
C18_Witness ==
    /\ UndoReturned
    /\ Len(operation_log.operations) = 2
    /\ Len(report.skipped_files) = 2 \/ Len(report.failed_restores) = 2

\* --------------------------------------------------- should_include, alone
\* should_include has been called and has returned its verdict on AskedPath.
Decided == result.cmd = "should_include"
AskedPath == Calls[1][1]
AskedName == file_name(AskedPath)

\* The rules of the decision list, read off the FilterRules.
IncludeRule ==
    \E g \in SeqRange(rules.filters.include.patterns) :
        matches_path(Pattern_new(g).tokens, AskedPath)
HiddenRule ==
    ~rules.filters.enable_hidden_files /\ Head(name_chars(AskedName)) = "."
FilenameRule == AskedName \in rules.filters.exclude.filenames
ExtensionRule ==
    /\ extension(AskedName) # NONE
    /\ \E e \in rules.filters.exclude.extensions :
          to_lowercase(e) = to_lowercase(extension(AskedName))
GlobRule ==
    \E g \in SeqRange(rules.filters.exclude.patterns) :
        matches_path(Pattern_new(g).tokens, AskedPath)
RegexRule ==
    \E r \in SeqRange(rules.filters.exclude.regex) : is_match(r, name_chars(AskedName))

\* C19: the verdict of should_include is that of the first rule that
\* matches, in the order: include glob (include), hidden file with hidden
\* files disabled (exclude), excluded filename, excluded extension compared
\* in lower case, exclude glob, exclude regex (exclude), none (include).  A
\* path that matches an include glob is included whatever else matches.
C19_FirstRuleWins ==
    Decided =>
        /\ result.status =
              (IF IncludeRule THEN "include"
               ELSE IF HiddenRule THEN "exclude"
               ELSE IF FilenameRule THEN "exclude"
               ELSE IF ExtensionRule THEN "exclude"
               ELSE IF GlobRule THEN "exclude"
               ELSE IF RegexRule THEN "exclude"
               ELSE "include")
        /\ IncludeRule => result.status = "include"

\* A file that matches an include glob has been included against an exclude
\* rule of each kind: its filename, its extension, an exclude glob and an
\* exclude regex.
C19_Witness ==
    /\ Decided /\ result.status = "include" /\ IncludeRule
    /\ FilenameRule /\ ExtensionRule /\ GlobRule /\ RegexRule

\* The rules hold the exclude glob **/logs/** and nothing else that excludes.
OnlyLogsGlob ==
    rules = Config([default_rules EXCEPT !.enable_hidden_files = TRUE,
                                         !.exclude.patterns = <<Glob_logs>>])

\* C20: under the exclude glob **/logs/** alone a path is excluded exactly
\* when logs is one of its directories, a whole segment: logs/f.txt and
\* app/logs/f.txt are excluded, my_logs/f.txt and app/my_logs/f.txt are not.
C20_LogsIsASegment ==
    (Decided /\ OnlyLogsGlob) =>
        (result.status = "exclude"
            <=> \E i \in 1..(Len(AskedPath) - 1) : AskedPath[i] = N("logs"))

\* app/my_logs/f.txt, spelled relative to the current directory, has been
\* included under **/logs/**.
C20_Witness ==
    /\ Decided /\ OnlyLogsGlob
    /\ AskedPath = <<CWD, N("app"), N("my_logs"), N("f.txt")>>
    /\ result.status = "include"

\* ------------------------------------------------------ a single star
\* The rules hold the exclude glob *.txt and nothing else that excludes.
OnlyStarGlob ==
    rules = Config([default_rules EXCEPT !.enable_hidden_files = TRUE,
                                         !.exclude.patterns = <<Glob_star_txt>>])

\* The spelling of the path is one segment (it holds no separator) that
\* ends in ".txt".
OneSegmentTxt(p) ==
    LET chars == path_chars(p)
    IN /\ \A i \in DOMAIN chars : chars[i] # "/"
       /\ Len(chars) >= 4
       /\ SubSeq(chars, Len(chars) - 3, Len(chars)) = <<".", "t", "x", "t">>

\* C21: a single * never matches across a path separator: under the exclude
\* glob *.txt alone a path is excluded only if the whole path is one segment
\* ending in .txt, so logs/f.txt is not excluded.
C21_StarStaysInSegment ==
    (Decided /\ OnlyStarGlob) =>
        (result.status = "exclude" <=> OneSegmentTxt(AskedPath))

\* ------------------------------------------------------------ compile, alone
\* compile has been called on the rules and has returned Outcome.
Compiled == result.cmd = "compile"
Outcome == Calls[1]

\* The patterns of the rules in the order of compilation (exclude globs,
\* include globs, exclude regexes), each with whether it is valid, the error
\* that names it and the reason of the error.
PatternList ==
    [i \in DOMAIN rules.filters.exclude.patterns |->
        [valid |-> Pattern_new(rules.filters.exclude.patterns[i]).ok,
         error |-> "InvalidGlobPattern",
         pattern |-> rules.filters.exclude.patterns[i], reason |-> ""]]
    \o [i \in DOMAIN rules.filters.include.patterns |->
        [valid |-> Pattern_new(rules.filters.include.patterns[i]).ok,
         error |-> "InvalidGlobPattern",
         pattern |-> rules.filters.include.patterns[i], reason |-> ""]]
    \o [i \in DOMAIN rules.filters.exclude.regex |->
        [valid |-> Regex_new(rules.filters.exclude.regex[i]).ok,
         error |-> "InvalidRegexPattern",
         pattern |-> rules.filters.exclude.regex[i].lit,
         reason |-> Regex_new(rules.filters.exclude.regex[i]).reason]]

Invalid == {i \in DOMAIN PatternList : ~PatternList[i].valid}

\* C22: compile returns CompiledFilters only when every pattern is valid;
\* when one is not it returns an error and no CompiledFilters, and the error
\* names the first invalid pattern, with the reason if it is a regex.
C22_AllOrNothing ==
    Compiled =>
        IF Invalid = {}
        THEN /\ Outcome.ok
             /\ "include_patterns" \in DOMAIN Outcome
        ELSE LET first == PatternList[CHOOSE i \in Invalid : \A j \in Invalid : i <= j]
             IN /\ ~Outcome.ok
                /\ DOMAIN Outcome = {"ok", "error", "pattern", "reason"}
                /\ Outcome.error = first.error
                /\ Outcome.pattern = first.pattern
                /\ Outcome.reason = first.reason
                /\ first.error = "InvalidRegexPattern" => Outcome.reason # ""

\* compile has returned the error of an invalid regex that stands behind a
\* valid one and ahead of another invalid one, all globs being valid.
C22_Witness ==
    /\ Compiled
    /\ rules.filters.exclude.patterns = <<Glob_logs>>
    /\ rules.filters.exclude.regex = <<Regex_group_a, Regex_group>>
    /\ result.status = "InvalidRegexPattern"
    /\ Outcome.pattern = Regex_group_a.lit

\* ---------------------------------------------------------- categorize, alone
\* categorize has been called on (AskedMime, AskedExt) and has returned.
Categorized == result.cmd = "categorize"
AskedMime == Calls[1][1]
AskedExt == Calls[1][2]

Categories == {"Image", "Document", "Code", "Other"}

\* The keys of the two tables that s is equal to but for the case of its
\* letters.
SameButCase(s, keys) ==
    {k \in keys : s = k \/ (s = "IMAGE/PNG" /\ k = "image/png")
                        \/ (s = "PNG" /\ k = "png") \/ (s = "TXT" /\ k = "txt")}

\* C23: categorize returns a category for every pair of arguments: that of
\* the MIME type when it is present and in the MIME table but for case,
\* whatever the extension; otherwise that of the extension when it is
\* present and in the extension table but for case; otherwise Other.
C23_Categorize ==
    Categorized =>
        LET mimes == IF AskedMime = NONE THEN {} ELSE SameButCase(AskedMime, DOMAIN mime_map)
            exts == IF AskedExt = NONE THEN {} ELSE SameButCase(AskedExt, DOMAIN extension_map)
        IN /\ result.status \in Categories
           /\ mimes # {} => \A m \in mimes : result.status = mime_map[m]
           /\ (mimes = {} /\ exts # {}) => \A e \in exts : result.status = extension_map[e]
           /\ (mimes = {} /\ exts = {}) => result.status = "Other"

\* categorize has followed a MIME type written in capitals against an
\* extension of another category.
C23_Witness ==
    /\ Categorized
    /\ AskedMime = "IMAGE/PNG" /\ AskedExt = "txt"
    /\ result.status = "Image"

\* ------------------------------------------------- unrecognised content
\* The category directory that C24 gives the file that was at p when the
\* command started: that of its content when the sniffer recognises it,
\* that of its filename extension otherwise.
ExpectedDir(p) ==
    LET kind == infer_get(start_fs[p].content)
    IN IF kind.mime_type # NONE
       THEN dir_name(categorize(kind.mime_type, kind.extension))
       ELSE dir_name(categorize(NONE, extension(file_name(p))))

\* C24: organize moves a file whose content the sniffer does not recognise
\* to the category directory of its filename extension (f.txt to
\* documents/), and to other/ only when the extension is unknown too; dry-run
\* counts it under that directory.
C24_ExtensionFallback ==
    /\ OrganizeReturned =>
          \A i \in DOMAIN performed :
              performed[i][2] = <<N(ExpectedDir(performed[i][1])), file_name(performed[i][1])>>
    /\ (Returned("dry_run") /\ result.status = "Ok") =>
          \A d \in DOMAIN summary :
              summary[d] = Cardinality({p \in PassingFiles : ExpectedDir(p) = d})

\* ------------------------------------------------------- the case of letters
\* The rules hold one excluded extension, or one excluded filename, and
\* nothing else that excludes.
OnlyExtension(e) ==
    rules = Config([default_rules EXCEPT !.enable_hidden_files = TRUE,
                                         !.exclude.extensions = {e}])
OnlyFilename(n) ==
    rules = Config([default_rules EXCEPT !.enable_hidden_files = TRUE,
                                         !.exclude.filenames = {n}])

\* C25: with the extension txt excluded, written in either letter case, a
\* file is excluded exactly when its extension is txt in either letter case
\* (f.txt and f.TXT both); with a filename excluded, a file is excluded
\* exactly when it has that name letter for letter (f.TXT does not exclude
\* f.txt).
C25_CaseOfLetters ==
    Decided =>
        /\ \A e \in {"txt", "TXT"} :
              OnlyExtension(e) =>
                  (result.status = "exclude" <=> AskedName \in {N("f.txt"), N("f.TXT")})
        /\ \A n \in {N("f.txt"), N("f.TXT")} :
              OnlyFilename(n) => (result.status = "exclude" <=> AskedName = n)

\* f.TXT has been excluded by the extension txt written in small letters.
C25_Witness ==
    /\ Decided /\ OnlyExtension("txt")
    /\ AskedName = N("f.TXT")
    /\ result.status = "exclude"

\* ------------------------------------------------------- the log, alone
\* load has returned after a save that succeeded; SavedLog is the log that
\* was saved.
LoadAfterSave ==
    /\ result.cmd = "load"
    /\ previous.result.cmd = "save" /\ previous.result.status = "Ok"
SavedLog == Calls[1]

\* C26: after log.save(base_path) has succeeded, load(base_path) returns a
\* log, with the timestamp of the log that was saved (the time it was
\* created), its base_path and its operations in their order, each with its
\* original_path, new_path and category.
C26_SaveLoadRoundTrip ==
    LoadAfterSave => (result.status = "Some" /\ operation_log = SavedLog)

\* delete has returned; the call before it, if any, was a delete that
\* succeeded.
Deleted == result.cmd = "delete"
AfterDelete == previous.result.cmd = "delete" /\ previous.result.status = "Ok"

\* C27: delete returns Ok and changes nothing when no history file exists; a
\* delete after a delete that succeeded succeeds; a load after a delete that
\* succeeded returns Ok(None), no error.
C27_DeleteIdempotent ==
    /\ (Deleted /\ ~exists(start_fs, history_file_path(base_path))) =>
          (result.status = "Ok" /\ fs = start_fs)
    /\ (Deleted /\ AfterDelete) => (result.status = "Ok" /\ fs = start_fs)
    /\ (result.cmd = "load" /\ AfterDelete) => result.status = "None"

\* A second delete has returned Ok after the first removed a history file.
C27_Witness ==
    /\ Deleted /\ AfterDelete
    /\ result.status = "Ok"
    /\ is_file(previous.start_fs, history_file_path(base_path))

\* -------------------------------------------------- dry run, then organize
\* An organize_directory_with_config has returned that followed a dry run
\* of the same directory under the same rules, nothing having changed since
\* the dry run started.
OrganizeAfterDryRun ==
    /\ OrganizeReturned
    /\ attempts.by = "cli"
    /\ previous.result.cmd = "dry_run" /\ previous.result.status = "Ok"
    /\ previous.clean

\* The number of files that the organize attempted to move into the
\* category directory d, and that it did move there.
Attempted(d) == Cardinality({i \in DOMAIN Calls : Calls[i][3] = d})
MovedInto(d) ==
    Cardinality({i \in DOMAIN performed : performed[i][2][1] = N(d)})

\* The count of the dry run for the category directory d.
Counted(d) == IF d \in DOMAIN summary THEN summary[d] ELSE 0

\* C28: the counts of a dry run are, category by category, the numbers of
\* files that the organize of the same directory under the same rules
\* attempts to move into the category directories, and the numbers it moves
\* there when no move fails.
C28_DryRunIsOrganize ==
    OrganizeAfterDryRun =>
        \A d \in {"images", "documents", "code", "other"} :
            /\ Counted(d) = Attempted(d)
            /\ ~organize_failed => Counted(d) = MovedInto(d)

\* Such an organize has moved a file that the dry run counted and left in
\* the root a file that the filters exclude.
C28_Witness ==
    /\ OrganizeAfterDryRun
    /\ ~organize_failed
    /\ \E d \in DOMAIN summary : summary[d] > 0
    /\ \E p \in root_files(start_fs) : is_file(fs, p) /\ ~starts_with_dot(file_name(p))

\* --------------------------------------------------- nothing to organize
\* An organize has returned that ran on a directory in which it had no file
\* to select, under a configuration that loads and compiles where the
\* orchestrator takes one.
EmptyOrganize ==
    /\ Returned("organize")
    /\ is_dir(start_fs, base_path)
    /\ attempts.by = "cli" => ~ConfigurationError
    /\ Selection = {}

\* The tree is the one the command started on, but for the history file.
OnlyHistoryChanged ==
    /\ DOMAIN fs \ {history_file_path(base_path)} = DOMAIN start_fs \ {history_file_path(base_path)}
    /\ \A p \in DOMAIN fs \ {history_file_path(base_path)} : fs[p] = start_fs[p]

\* The history file holds a log without operations.
EmptyLogStored ==
    /\ is_file(fs, history_file_path(base_path))
    /\ fs[history_file_path(base_path)].content.doc.json
    /\ fs[history_file_path(base_path)].content.doc.present = AllFields
    /\ fs[history_file_path(base_path)].content.doc.operations = <<>>

\* C29 as stated: an organize of a directory with no eligible file returns
\* Ok, creates no subdirectory (it changes nothing but the history file)
\* and writes a history file whose list of operations is empty.
C29_EmptyOrganizeWritesLog ==
    EmptyOrganize =>
        /\ result.status = "Ok"
        /\ OnlyHistoryChanged
        /\ EmptyLogStored

\* C29, amended: as stated, except that the history file is written exactly
\* when it can be (it is a writable file, or it does not exist and base_path
\* is writable); when it cannot the run still returns Ok and leaves the tree
\* as it was.
C29_EmptyOrganize ==
    EmptyOrganize =>
        /\ result.status = "Ok"
        /\ OnlyHistoryChanged
        /\ result.saved <=> HistoryWritable(start_fs)
        /\ result.saved => EmptyLogStored
        /\ ~result.saved => fs = start_fs

\* Such an organize has written a log without operations over the history
\* file of an earlier run, the only file in the root.
C29_Witness ==
    /\ EmptyOrganize
    /\ result.saved
    /\ root_files(start_fs) = {history_file_path(base_path)}
    /\ start_fs[history_file_path(base_path)].content.doc.operations # <<>>

\* ------------------------------------------------------ below the root
\* The paths of the tree f that lie inside a subdirectory of base_path.
Inside(f) == {p \in DOMAIN f : Len(p) >= 2}

\* The subdirectories of base_path in the tree f.
Subdirectories(f) == {p \in Children(f, base_path) : f[p].kind = "dir"}

\* C30: when an organize has returned, the files it tried to move were
\* regular files directly in base_path; every subdirectory that was there
\* is still there as it was, and every file that was inside a subdirectory
\* is still at its path with its content.
C30_NonRecursive ==
    Returned("organize") =>
        /\ \A i \in DOMAIN Calls : Calls[i][1] \in root_files(start_fs)
        /\ \A d \in Subdirectories(start_fs) : exists(fs, d) /\ fs[d] = start_fs[d]
        /\ \A p \in Inside(start_fs) : exists(fs, p) /\ fs[p] = start_fs[p]

\* ------------------------------------------------- a failed precondition
\* move_to_category has returned the error of a precondition: base_path is
\* invalid, or file_path has no filename component.
PreconditionFailed ==
    /\ Moved
    /\ \/ result.status = "InvalidBasePath"
       \/ result.status = "FileMoveFailure" /\ MovedPath = NoFileName

\* C31: a call of move_to_category that fails a precondition has changed
\* nothing in the filesystem; base_path/category_dir_name is not created by
\* it.
C31_PreconditionLeavesTree ==
    PreconditionFailed =>
        /\ fs = start_fs
        /\ ~exists(start_fs, <<N(MovedCategory)>>) => ~exists(fs, <<N(MovedCategory)>>)

\* ------------------------------------------------ the write of the log
\* What the path of the history file holds in the tree f.
HistoryEntry(f) ==
    IF exists(f, history_file_path(base_path)) THEN <<f[history_file_path(base_path)]>>
    ELSE <<>>

\* The organize is between its first and its last move attempt, or about to
\* save.
OrganizeRunning == pc = "organize"

\* C32: within one organize the history file is written once, after the
\* last move attempt, and no move follows the write: as long as the run has
\* not reached the write, the history file on disk is what it was before the
\* run (absent, or the log of the previous run).
C32_HistoryWrittenLast ==
    OrganizeRunning => HistoryEntry(fs) = HistoryEntry(start_fs)

\* The same for the runs whose moves left the reserved name alone.
C32_SaveIsLastStep ==
    (OrganizeRunning /\ \A i \in DOMAIN Calls : Calls[i][1] # history_file_path(base_path))
        => HistoryEntry(fs) = HistoryEntry(start_fs)

\* -------------------------------------------------------- the frame of undo
\* An undo is replaying its log, or has just returned.
UndoActing == result.cmd = "undo" /\ ~touched

\* The path is one that the log names: the history file, the new_path or the
\* original_path of an operation, or a backup path beside an original_path.
NamedByLog(p) ==
    \/ p = history_file_path(base_path)
    \/ \E op \in Operations :
          \/ p = op.new_path
          \/ p = op.original_path
          \/ IsBackupOf(p, op.original_path)

AllPaths == DOMAIN fs \cup DOMAIN start_fs

C34_HistoryFileReserved ==
    result.cmd = "organize" =>
        /\ \A i \in DOMAIN Calls : Calls[i][1] # history_file_path(base_path)
        /\ \A op \in Operations : op.original_path # history_file_path(base_path)
        /\ OrganizeRunning => HistoryEntry(fs) = HistoryEntry(start_fs)

\* The same under the default rules of the library orchestrator, which keep
\* hidden files out.
C34_ReservedUnderDefaults ==
    (result.cmd = "organize" /\ attempts.by = "cli" /\ compile(rules).ok
        /\ ~compile(rules).enable_hidden_files) =>
        /\ \A i \in DOMAIN Calls : Calls[i][1] # history_file_path(base_path)
        /\ \A op \in Operations : op.original_path # history_file_path(base_path)

\* ----------------------------------------------------- the undo accounting
\* C35: undo accounts for every operation of the loaded log exactly once.  A
\* failure or a skip does not stop the replay: while it runs, the operations
\* counted in the report and those still to come add up to the log, and in
\* the returned report restored_files + |failed_restores| + |skipped_files|
\* is the number of operations of the log.
C35_EveryOperationAccounted ==
    /\ pc = "undo" =>
          report.restored_files + Len(report.failed_restores)
              + Len(report.skipped_files) + Len(todo) = Len(operation_log.operations)
    /\ UndoReturned =>
          report.restored_files + Len(report.failed_restores)
              + Len(report.skipped_files) = Len(operation_log.operations)

\* An undo of a log of two operations has returned: the operation recorded
\* last, replayed first, was skipped or failed, and the other one was
\* restored after it.
C35_Witness ==
    /\ UndoReturned
    /\ Len(operation_log.operations) = 2
    /\ report.restored_files = 1
    /\ performed = <<<<operation_log.operations[1].new_path,
                       operation_log.operations[1].original_path>>>>
    /\ \/ report.skipped_files # <<>>
       \/ report.failed_restores # <<>>

\* ------------------------------------------------------- a failed restore
\* The turn of the replay records its operation as a failure.
FailureStep ==
    /\ pc = "undo" /\ todo # <<>>
    /\ Len(report'.failed_restores) = Len(report.failed_restores) + 1

\* C36: a restore that undo records as a failure leaves the filesystem as it
\* was for that operation: the moved file is still at new_path, and what
\* occupied original_path is still at original_path, not renamed aside to a
\* .bak path.
C36_FailureLeavesOperation ==
    [][FailureStep =>
          LET op == Head(todo)
          IN /\ exists(fs', op.new_path) /\ fs'[op.new_path] = fs[op.new_path]
             /\ exists(fs, op.original_path) =>
                   /\ exists(fs', op.original_path)
                   /\ fs'[op.original_path] = fs[op.original_path]
             /\ fs' = fs]_vars

\* The same for the failures of the backup rename, and for those met with
\* original_path free.
C36_BackupFailureLeavesTree ==
    [][(FailureStep
        /\ \/ ~exists(fs, Head(todo).original_path)
           \/ report'.failed_restores[Len(report'.failed_restores)][2]
                  = "Could not backup conflicting file")
          => fs' = fs]_vars

\* ----------------------------------------------------------- repeated undo
\* The file of the operation is already back: a file stands at original_path
\* and nothing at new_path.
AlreadyBack(f, op) == is_file(f, op.original_path) /\ ~exists(f, op.new_path)

\* The undo that has just returned replayed the log kept by a partial undo,
\* and found every recorded file either already back at its original path
\* or restorable from its new path.
RepeatedUndo ==
    /\ SecondUndo
    /\ \A op \in Operations : AlreadyBack(start_fs, op) \/ Restorable(start_fs, op)

\* C37: repeated undo converges.  An undo that replays the log kept by a
\* partial undo, once every recorded file is already back at its original
\* path or restorable from its new path, ends with every recorded file at
\* its original path, reports complete success and deletes the history file.
C37_RepeatedUndoConverges ==
    RepeatedUndo =>
        /\ \A op \in Operations : is_file(fs, op.original_path)
        /\ is_complete_success(report)
        /\ ~exists(fs, history_file_path(base_path))

\* The same when no recorded file is already back: every one of them is
\* restorable from its new path.
C37_AllRestorable ==
    (SecondUndo /\ \A op \in Operations :
                      /\ Restorable(start_fs, op)
                      /\ op.original_path # history_file_path(base_path)) =>
        /\ \A op \in Operations : is_file(fs, op.original_path)
        /\ is_complete_success(report)
        /\ ~exists(fs, history_file_path(base_path))

\* ------------------------------------------------------- the backup rename
\* The turn of the replay renames the occupant of original_path aside.
BackupStep ==
    /\ ConflictStep
    /\ ~is_file(fs', Head(todo).original_path)
       \/ fs'[Head(todo).original_path].content # fs[Head(todo).original_path].content

\* The contents of the files of the tree f.
Contents(f) == {f[q].content : q \in {x \in DOMAIN f : f[x].kind = "file"}}

\* C38: the backup rename of an undo conflict never overwrites a file: the
\* backup path chosen for the occupant of original_path names no file that
\* exists, so every content present before the turn is present after it.
C38_BackupNeverOverwrites ==
    [][BackupStep =>
          /\ \A q \in DOMAIN fs : IsBackupOf(q, Head(todo).original_path) =>
                (q \in DOMAIN fs' /\ fs'[q] = fs[q])
          /\ Contents(fs) \subseteq Contents(fs')]_vars

\* The same when no file with the name of a backup of this second stands
\* beside original_path.
C38_FreshBackupPath ==
    [][(BackupStep /\ \A q \in DOMAIN fs :
                         ~(IsBackupOf(q, Head(todo).original_path)
                           /\ file_name(q).bak[Len(file_name(q).bak)] = now)) =>
          /\ \A q \in DOMAIN fs : IsBackupOf(q, Head(todo).original_path) =>
                (q \in DOMAIN fs' /\ fs'[q] = fs[q])
          /\ Contents(fs) \subseteq Contents(fs')]_vars

\* ------------------------------------------------- the shape of the log
\* The operation has the shape of a move out of base_path: original_path is
\* base_path/<name>, new_path is base_path/<category directory>/<name>, and
\* category is the name of that directory.
WellShaped(op) ==
    /\ Len(op.original_path) = 1
    /\ op.new_path = <<N(op.category), op.original_path[1]>>
    /\ op.category \in {dir_name(c) : c \in Categories}

\* C39: every operation that organize records is well shaped, the
\* original_paths of one log are pairwise distinct, and right after the
\* save of the run every recorded new_path exists and no recorded
\* original_path does.
C39_LogInvariants ==
    /\ result.cmd = "organize" =>
          /\ \A op \in Operations : WellShaped(op)
          /\ \A i, j \in DOMAIN operation_log.operations :
                operation_log.operations[i].original_path
                    = operation_log.operations[j].original_path => i = j
    /\ OrganizeReturned =>
          \A op \in Operations : exists(fs, op.new_path) /\ ~exists(fs, op.original_path)

\* The same with the operations on the history file set aside in the last
\* part.
C39_LogInvariantsOfFiles ==
    /\ result.cmd = "organize" =>
          /\ \A op \in Operations : WellShaped(op)
          /\ \A i, j \in DOMAIN operation_log.operations :
                operation_log.operations[i].original_path
                    = operation_log.operations[j].original_path => i = j
    /\ OrganizeReturned =>
          \A op \in Operations :
              op.original_path # history_file_path(base_path) =>
                  exists(fs, op.new_path) /\ ~exists(fs, op.original_path)

====
